---- MODULE Spec2Model ----
(***************************************************************************)
(* A model of prisma-valibot-generator: generateSchemas walks a Prisma     *)
(* DMMF (models, fields, enums) and appends schema declarations to one     *)
(* document, index.ts.  The emitted text is modelled as a sequence of      *)
(* fragments, one per `export const`, whose body is the syntax tree of the *)
(* emitted valibot expression.                                             *)
(***************************************************************************)
EXTENDS Naturals, Sequences, FiniteSets, TLC

VARIABLES dmmf, pc, idx, enumsContent, indexContent, files, parsed, outputDir

vars == <<dmmf, pc, idx, enumsContent, indexContent, files, parsed, outputDir>>

(***************************************************************************)
(* Bounds of the model.                                                    *)
(***************************************************************************)
\* how many optional extra fields the Account model draws from FieldMenu
MaxExtraFields == 1
\* longest array handed to a generated schema
MaxArrayLen == 2

(***************************************************************************)
(* Sequence helpers.                                                       *)
(***************************************************************************)
FlatMap(s, Op(_)) ==
  LET F[i \in 0..Len(s)] == IF i = 0 THEN <<>> ELSE F[i - 1] \o Op(s[i])
  IN F[Len(s)]

Range(s) == {s[i] : i \in 1..Len(s)}

Exists(s, P(_)) == \E i \in 1..Len(s) : P(s[i])

\* Array.prototype.find: the first element satisfying P, or the fallback
FindFirst(s, P(_), fallback) ==
  IF \E i \in 1..Len(s) : P(s[i])
  THEN s[CHOOSE i \in 1..Len(s) : P(s[i]) /\ \A j \in 1..(i - 1) : ~P(s[j])]
  ELSE fallback

(***************************************************************************)
(* The emitted valibot expressions, as syntax trees.                       *)
(***************************************************************************)
Prim(s) == <<"prim", s>>
Ref(n) == <<"ref", n>>
Lazy(e) == <<"lazy", e>>
Optional(e) == <<"optional", e>>
Nullable(e) == <<"nullable", e>>
Nullish(e) == <<"nullish", e>>
Array(e) == <<"array", e>>
Picklist(n) == <<"picklist", n>>
PicklistKeys(n) == <<"picklistKeys", n>>
PicklistOf(vals) == <<"picklistOf", vals>>
ConstArray(vals) == <<"constArray", vals>>
Union(arms) == <<"union", arms>>
Object(entries) == <<"object", entries>>
StrictObject(entries) == <<"strictObject", entries>>
Entry(key, e) == <<key, e>>
\* the right-hand side of an `export type`, which declares no schema
TypeAlias(of) == <<"type", of>>

\* one `export const <name> = <body>` of the document
Fragment(name, builder, model, ctx, pass, body) ==
  [name |-> name, builder |-> builder, model |-> model, ctx |-> ctx,
   pass |-> pass, body |-> body]

(***************************************************************************)
(* The input: DMMF fields, models and enums.                               *)
(***************************************************************************)
Field(name, kind, type, isList, isRequired, hasDefaultValue, isId, isUnique,
      relationName, relationFromFields) ==
  [name |-> name, kind |-> kind, type |-> type, isList |-> isList,
   isRequired |-> isRequired, hasDefaultValue |-> hasDefaultValue,
   isId |-> isId, isUnique |-> isUnique, relationName |-> relationName,
   relationFromFields |-> relationFromFields]

Scalar(name, type, isList, isRequired, hasDefaultValue) ==
  Field(name, "scalar", type, isList, isRequired, hasDefaultValue, FALSE, FALSE, "", {})

EnumField(name, type, isList, isRequired, hasDefaultValue) ==
  Field(name, "enum", type, isList, isRequired, hasDefaultValue, FALSE, FALSE, "", {})

Relation(name, type, isList, isRequired, relationName, fromFields) ==
  Field(name, "object", type, isList, isRequired, FALSE, FALSE, FALSE, relationName, fromFields)

IdField == Field("id", "scalar", "Int", FALSE, TRUE, TRUE, TRUE, FALSE, "", {})

NoField == Field("", "none", "", FALSE, FALSE, FALSE, FALSE, FALSE, "", {})

\* primaryKey holds the fields of @@id (<<>> when the model has none),
\* uniqueIndexes the field lists of the @@unique attributes
KeyedModel(name, fields, primaryKey, uniqueIndexes) ==
  [name |-> name, fields |-> fields, primaryKey |-> primaryKey,
   uniqueIndexes |-> uniqueIndexes]

Model(name, fields) == KeyedModel(name, fields, <<>>, <<>>)

NoModel == Model("", <<>>)

StatusEnum == [name |-> "Status", values |-> <<"ACTIVE", "ARCHIVED">>]

\* the optional fields an Account may carry; a list field is isRequired in DMMF
FieldMenu ==
  << Scalar("email", "String", FALSE, TRUE, FALSE),
     Scalar("nickname", "String", FALSE, FALSE, FALSE),
     Scalar("motto", "String", FALSE, FALSE, TRUE),
     Scalar("age", "Int", FALSE, FALSE, FALSE),
     Scalar("createdAt", "DateTime", FALSE, TRUE, TRUE),
     Scalar("tags", "String", TRUE, TRUE, FALSE),
     Scalar("stamps", "DateTime", TRUE, TRUE, FALSE),
     EnumField("status", "Status", FALSE, TRUE, FALSE),
     EnumField("role", "Status", FALSE, FALSE, FALSE),
     EnumField("flags", "Status", TRUE, TRUE, FALSE) >>

\* the optional field of a Team
TeamMenu ==
  << <<>>,
     <<EnumField("kind", "Status", FALSE, TRUE, FALSE)>>,
     <<EnumField("level", "Status", FALSE, FALSE, TRUE)>> >>

ExtraChoices ==
  {I \in SUBSET (1..Len(FieldMenu)) : Cardinality(I) <= MaxExtraFields}

PickFields(I) ==
  LET F[k \in 0..Len(FieldMenu)] ==
        IF k = 0 THEN <<>>
        ELSE IF k \in I THEN Append(F[k - 1], FieldMenu[k]) ELSE F[k - 1]
  IN F[Len(FieldMenu)]

\* the relation fields of Account and of Team, by relation topology
Topologies ==
  {"none", "oneToMany", "oneToManyOptional", "oneToOne", "manyToMany",
   "selfTree", "selfFriends", "twoRelations", "compoundUnique", "compoundId",
   "uniqueTimestamp"}

AccountRelations(t) ==
  CASE t = "oneToMany" -> <<Relation("ownedTeams", "Team", TRUE, TRUE, "AccountToTeam", {})>>
    [] t = "oneToManyOptional" -> <<Relation("ownedTeams", "Team", TRUE, TRUE, "AccountToTeam", {})>>
    [] t = "oneToOne" -> <<Relation("team", "Team", FALSE, FALSE, "AccountToTeam", {})>>
    [] t = "manyToMany" -> <<Relation("teams", "Team", TRUE, TRUE, "AccountToTeam", {})>>
    [] t = "selfTree" ->
         << Scalar("parentId", "Int", FALSE, FALSE, FALSE),
            Relation("parent", "Account", FALSE, FALSE, "Tree", {"parentId"}),
            Relation("children", "Account", TRUE, TRUE, "Tree", {}) >>
    [] t = "selfFriends" ->
         << Relation("friends", "Account", TRUE, TRUE, "Friends", {}),
            Relation("friendOf", "Account", TRUE, TRUE, "Friends", {}) >>
    [] t = "twoRelations" ->
         << Relation("ownedTeams", "Team", TRUE, TRUE, "Owner", {}),
            Relation("memberOf", "Team", TRUE, TRUE, "Members", {}) >>
    [] OTHER -> <<>>

TeamRelations(t) ==
  CASE t = "oneToMany" ->
         << Scalar("ownerId", "Int", FALSE, TRUE, FALSE),
            Relation("owner", "Account", FALSE, TRUE, "AccountToTeam", {"ownerId"}) >>
    [] t = "oneToManyOptional" ->
         << Scalar("ownerId", "Int", FALSE, FALSE, FALSE),
            Relation("owner", "Account", FALSE, FALSE, "AccountToTeam", {"ownerId"}) >>
    [] t = "oneToOne" ->
         << Field("ownerId", "scalar", "Int", FALSE, TRUE, FALSE, FALSE, TRUE, "", {}),
            Relation("owner", "Account", FALSE, TRUE, "AccountToTeam", {"ownerId"}) >>
    [] t = "manyToMany" -> <<Relation("members", "Account", TRUE, TRUE, "AccountToTeam", {})>>
    [] t = "twoRelations" ->
         << Scalar("ownerId", "Int", FALSE, TRUE, FALSE),
            Relation("owner", "Account", FALSE, TRUE, "Owner", {"ownerId"}),
            Relation("members", "Account", TRUE, TRUE, "Members", {}) >>
    [] OTHER -> <<>>

\* a Team: @id on id, or @@unique([id, year]) next to it, or @@id([id, year]),
\* or a DateTime @unique next to @id
Team(t, extra) ==
  CASE t = "compoundUnique" ->
         KeyedModel("Team", <<IdField, Scalar("year", "Int", FALSE, TRUE, FALSE)>> \o extra,
                    <<>>, << <<"id", "year">> >>)
    [] t = "compoundId" ->
         KeyedModel("Team", << Scalar("id", "Int", FALSE, TRUE, FALSE),
                               Scalar("year", "Int", FALSE, TRUE, FALSE) >> \o extra,
                    <<"id", "year">>, <<>>)
    [] t = "uniqueTimestamp" ->
         Model("Team", << IdField,
                          Field("createdAt", "scalar", "DateTime", FALSE, TRUE, FALSE,
                                FALSE, TRUE, "", {}) >> \o extra)
    [] OTHER -> Model("Team", <<IdField>> \o extra \o TeamRelations(t))

Graph(t, I, k) ==
  [models |-> << Model("Account", <<IdField>> \o PickFields(I) \o AccountRelations(t)),
                 Team(t, TeamMenu[k]) >>,
   enums |-> <<StatusEnum>>]

Graphs == {Graph(t, I, k) : t \in Topologies, I \in ExtraChoices, k \in 1..Len(TeamMenu)}

(***************************************************************************)
(* String helpers of the builders.                                         *)
(***************************************************************************)
\* name.charAt(0).toUpperCase() + name.slice(1), on the names of the graphs
Capitalize(s) ==
  CASE s = "id" -> "Id"
    [] s = "email" -> "Email"
    [] s = "nickname" -> "Nickname"
    [] s = "motto" -> "Motto"
    [] s = "age" -> "Age"
    [] s = "createdAt" -> "CreatedAt"
    [] s = "tags" -> "Tags"
    [] s = "stamps" -> "Stamps"
    [] s = "status" -> "Status"
    [] s = "role" -> "Role"
    [] s = "flags" -> "Flags"
    [] s = "kind" -> "Kind"
    [] s = "level" -> "Level"
    [] s = "ownedTeams" -> "OwnedTeams"
    [] s = "memberOf" -> "MemberOf"
    [] s = "team" -> "Team"
    [] s = "teams" -> "Teams"
    [] s = "parentId" -> "ParentId"
    [] s = "parent" -> "Parent"
    [] s = "children" -> "Children"
    [] s = "friends" -> "Friends"
    [] s = "friendOf" -> "FriendOf"
    [] s = "ownerId" -> "OwnerId"
    [] s = "owner" -> "Owner"
    [] s = "members" -> "Members"
    [] OTHER -> s

IsObject(f) == f.kind = "object"
IsScalarOrEnum(f) == f.kind = "scalar" \/ f.kind = "enum"

(***************************************************************************)
(* utils/type-mapping                                                      *)
(***************************************************************************)
IsoTimestamp == Prim("v.pipe(v.string(), v.isoTimestamp())")

\* typeMap[fieldType] || 'v.any()', over the type names of a Prisma schema
getBaseValibotType(type) ==
  CASE type = "String" -> Prim("v.string()")
    [] type = "Int" -> Prim("v.number()")
    [] type = "Float" -> Prim("v.number()")
    [] type = "Decimal" -> Prim("v.number()")
    [] type = "BigInt" -> Prim("v.bigint()")
    [] type = "Boolean" -> Prim("v.boolean()")
    [] type = "DateTime" -> Union(<<IsoTimestamp, Prim("v.date()")>>)
    [] type = "Json" -> Prim("v.any()")
    [] type = "Bytes" -> Prim("v.instance(Uint8Array)")
    [] OTHER -> Prim("v.any()")

\* faulty variant: a list of timestamps as an array of the base choice
getValibotTypeArrayOfBase(type, isList) ==
  IF isList THEN Array(getBaseValibotType(type)) ELSE getBaseValibotType(type)

getValibotType(type, isList) ==
  IF isList /\ type = "DateTime"
  THEN Union(<<Array(IsoTimestamp), Array(Prim("v.date()"))>>)
  ELSE IF isList THEN Array(getBaseValibotType(type))
  ELSE getBaseValibotType(type)

wrapOptional(type, isRequired) == IF isRequired THEN type ELSE Optional(type)

wrapNullable(type, isNullable) == IF isNullable THEN Nullable(type) ELSE type

\* the type of a scalar or enum field, as every input builder computes it
fieldValibotType(field) ==
  IF field.kind = "enum"
  THEN IF field.isList THEN Array(Picklist(field.type \o "Enum"))
       ELSE Picklist(field.type \o "Enum")
  ELSE getValibotType(field.type, field.isList)

(***************************************************************************)
(* The preamble of generateSchemas: the shared sort and query-mode schemas *)
(***************************************************************************)
preambleContent ==
  << Fragment("SortOrderSchema", "generateSchemas", "", "", 0, PicklistOf(<<"asc", "desc">>)),
     Fragment("QueryModeSchema", "generateSchemas", "", "", 0,
              PicklistOf(<<"default", "insensitive">>)),
     Fragment("NullsOrderSchema", "generateSchemas", "", "", 0,
              PicklistOf(<<"first", "last">>)),
     Fragment("SortOrderInputSchema", "generateSchemas", "", "", 0,
              Object(<< Entry("sort", Ref("SortOrderSchema")),
                        Entry("nulls", Optional(Ref("NullsOrderSchema"))) >>)) >>

(***************************************************************************)
(* builders/model-schema and builders/enum-schema                          *)
(***************************************************************************)
\* faulty variant: a non-required field as v.optional(v.nullable(T))
modelSchemaEntryOptional(field) ==
  IF field.kind = "object" THEN <<>>
  ELSE << Entry(field.name,
                IF ~field.isRequired THEN Optional(Nullable(fieldValibotType(field)))
                ELSE fieldValibotType(field)) >>

modelSchemaEntry(field) ==
  IF field.kind = "object" THEN <<>>
  ELSE << Entry(field.name,
                IF ~field.isRequired THEN Nullish(fieldValibotType(field))
                ELSE fieldValibotType(field)) >>

generateModelSchema(model) ==
  << Fragment(model.name \o "Schema", "generateModelSchema", model.name, "", 1,
              Object(FlatMap(model.fields, modelSchemaEntry))),
     Fragment(model.name, "generateModelSchema", model.name, "", 1,
              TypeAlias(model.name \o "Schema")) >>

scalarFieldName(f) == IF f.kind # "object" THEN <<f.name>> ELSE <<>>

generateScalarFieldEnum(model) ==
  << Fragment(model.name \o "ScalarFieldEnum", "generateScalarFieldEnum", model.name, "", 1,
              ConstArray(FlatMap(model.fields, scalarFieldName))) >>

generateEnumSchema(enumDef) ==
  << Fragment(enumDef.name \o "Enum", "generateEnumSchema", enumDef.name, "", 0,
              ConstArray(enumDef.values)),
     Fragment(enumDef.name \o "Schema", "generateEnumSchema", enumDef.name, "", 0,
              Picklist(enumDef.name \o "Enum")),
     Fragment(enumDef.name, "generateEnumSchema", enumDef.name, "", 0,
              TypeAlias(enumDef.name \o "Enum")) >>

\* some field of some model is of the enum and satisfies P
enumUsage(enumDef, models, P(_)) ==
  \E i \in 1..Len(models) : \E j \in 1..Len(models[i].fields) :
     LET field == models[i].fields[j]
     IN field.type = enumDef.name /\ field.kind = "enum" /\ P(field)

fieldIsRequired(field) == field.isRequired
fieldIsNullable(field) == ~field.isRequired
fieldIsList(field) == field.isList

hasRequiredUsage(enumDef, models) == enumUsage(enumDef, models, fieldIsRequired)

hasNullableUsage(enumDef, models) == enumUsage(enumDef, models, fieldIsNullable)

hasListUsage(enumDef, models) == enumUsage(enumDef, models, fieldIsList)

\* the equals / in / notIn / not entries shared by the enum filters
enumFilterEntries(S, self, nullable) ==
  LET W(e) == IF nullable THEN Nullable(e) ELSE e
  IN << Entry("equals", Optional(W(Ref(S)))),
        Entry("in", Optional(W(Array(Ref(S))))),
        Entry("notIn", Optional(W(Array(Ref(S))))),
        Entry("not", Optional(Lazy(Union(<<W(Ref(S)), Ref(self)>>)))) >>

enumAggregateEntries(base) ==
  << Entry("_count", Optional(Ref("IntFilterSchema"))),
     Entry("_min", Optional(Ref(base))),
     Entry("_max", Optional(Ref(base))) >>

generateEnumFilterSchema(enumDef, models) ==
  LET E == enumDef.name
      S == E \o "Schema"
      F(name, body) == Fragment(name, "generateEnumFilterSchema", E, "", 0, body)
  IN (IF hasRequiredUsage(enumDef, models)
      THEN <<F(E \o "FilterSchema",
               Lazy(Object(enumFilterEntries(S, E \o "FilterSchema", FALSE))))>>
      ELSE <<>>)
     \o
     (IF hasNullableUsage(enumDef, models)
      THEN <<F(E \o "NullableFilterSchema",
               Lazy(Object(enumFilterEntries(S, E \o "NullableFilterSchema", TRUE))))>>
      ELSE <<>>)
     \o
     (IF hasListUsage(enumDef, models)
      THEN <<F(E \o "NullableListFilterSchema",
               Object(<< Entry("equals", Optional(Array(Ref(S)))),
                         Entry("has", Optional(Ref(S))),
                         Entry("hasSome", Optional(Array(Ref(S)))),
                         Entry("hasEvery", Optional(Array(Ref(S)))),
                         Entry("isEmpty", Optional(Prim("v.boolean()"))) >>))>>
      ELSE <<>>)
     \o
     (IF hasRequiredUsage(enumDef, models)
      THEN <<F(E \o "WithAggregatesFilterSchema",
               Lazy(Object(enumFilterEntries(S, E \o "WithAggregatesFilterSchema", FALSE)
                           \o enumAggregateEntries(E \o "FilterSchema"))))>>
      ELSE <<>>)
     \o
     (IF hasNullableUsage(enumDef, models)
      THEN <<F(E \o "NullableWithAggregatesFilterSchema",
               Lazy(Object(enumFilterEntries(S, E \o "NullableWithAggregatesFilterSchema", TRUE)
                           \o enumAggregateEntries(E \o "NullableFilterSchema"))))>>
      ELSE <<>>)

(***************************************************************************)
(* builders/where-input: generateScalarFilterSchemas.  The whole block of  *)
(* scalar filters sits in one parts.push under one isTypeUsed('String')    *)
(* condition.                                                              *)
(***************************************************************************)
isTypeUsed(models, type, checkNullable, checkList) ==
  \E i \in 1..Len(models) : \E j \in 1..Len(models[i].fields) :
     LET field == models[i].fields[j]
     IN /\ field.kind = "scalar"
        /\ field.type = type
        /\ IF checkList THEN field.isList
           ELSE IF checkNullable THEN ~field.isRequired ELSE field.isRequired

\* the operators a scalar filter carries, by filter family
ScalarFilterTypes ==
  << [name |-> "String", value |-> Prim("v.string()"), in |-> TRUE, cmp |-> TRUE,
      text |-> TRUE, anyNot |-> FALSE, numeric |-> FALSE],
     [name |-> "Int", value |-> Prim("v.number()"), in |-> TRUE, cmp |-> TRUE,
      text |-> FALSE, anyNot |-> FALSE, numeric |-> TRUE],
     [name |-> "Float", value |-> Prim("v.number()"), in |-> TRUE, cmp |-> TRUE,
      text |-> FALSE, anyNot |-> FALSE, numeric |-> TRUE],
     [name |-> "BigInt", value |-> Prim("v.bigint()"), in |-> TRUE, cmp |-> TRUE,
      text |-> FALSE, anyNot |-> FALSE, numeric |-> TRUE],
     [name |-> "Bool", value |-> Prim("v.boolean()"), in |-> FALSE, cmp |-> FALSE,
      text |-> FALSE, anyNot |-> FALSE, numeric |-> FALSE],
     [name |-> "DateTime", value |-> IsoTimestamp, in |-> TRUE, cmp |-> TRUE,
      text |-> FALSE, anyNot |-> FALSE, numeric |-> FALSE],
     [name |-> "Json", value |-> Prim("v.any()"), in |-> FALSE, cmp |-> FALSE,
      text |-> FALSE, anyNot |-> TRUE, numeric |-> FALSE],
     [name |-> "Bytes", value |-> Prim("v.instance(Uint8Array)"), in |-> TRUE, cmp |-> FALSE,
      text |-> FALSE, anyNot |-> FALSE, numeric |-> FALSE] >>

scalarFilterEntries(t, self, nullable) ==
  LET W(e) == IF nullable THEN Nullable(e) ELSE e
      O(key) == Entry(key, Optional(t.value))
  IN <<Entry("equals", Optional(W(t.value)))>>
     \o (IF t.in THEN << Entry("in", Optional(W(Array(t.value)))),
                         Entry("notIn", Optional(W(Array(t.value)))) >>
         ELSE <<>>)
     \o (IF t.cmp THEN <<O("lt"), O("lte"), O("gt"), O("gte")>> ELSE <<>>)
     \o (IF t.text THEN << O("contains"), O("startsWith"), O("endsWith"),
                           Entry("mode", Optional(Ref("QueryModeSchema"))) >>
         ELSE <<>>)
     \o (IF t.anyNot THEN <<Entry("not", Optional(W(t.value)))>>
         ELSE <<Entry("not", Optional(Lazy(Union(<<W(t.value), Ref(self)>>))))>>)

scalarAggregateEntries(t, N) ==
  <<Entry("_count", Optional(Ref("IntFilterSchema")))>>
  \o (IF t.numeric
      THEN << Entry("_avg", Optional(Ref("Float" \o N \o "FilterSchema"))),
              Entry("_sum", Optional(Ref(t.name \o N \o "FilterSchema"))) >>
      ELSE <<>>)
  \o << Entry("_min", Optional(Ref(t.name \o N \o "FilterSchema"))),
        Entry("_max", Optional(Ref(t.name \o N \o "FilterSchema"))) >>

ScalarFilterFragment(name, body) ==
  Fragment(name, "generateScalarFilterSchemas", "", "", 0, body)

\* XFilterSchema and XNullableFilterSchema; Decimal is an alias of Float
plainFilters(t) ==
  << ScalarFilterFragment(t.name \o "FilterSchema",
       Lazy(Object(scalarFilterEntries(t, t.name \o "FilterSchema", FALSE)))),
     ScalarFilterFragment(t.name \o "NullableFilterSchema",
       Lazy(Object(scalarFilterEntries(t, t.name \o "NullableFilterSchema", TRUE)))) >>
  \o (IF t.name = "Float"
      THEN << ScalarFilterFragment("DecimalFilterSchema", Ref("FloatFilterSchema")),
              ScalarFilterFragment("DecimalNullableFilterSchema",
                                   Ref("FloatNullableFilterSchema")) >>
      ELSE <<>>)

listFilter(t) ==
  << ScalarFilterFragment(t.name \o "ListFilterSchema",
       Object(<< Entry("equals", Optional(Array(t.value))),
                 Entry("has", Optional(t.value)),
                 Entry("hasSome", Optional(Array(t.value))),
                 Entry("hasEvery", Optional(Array(t.value))),
                 Entry("isEmpty", Optional(Prim("v.boolean()"))) >>)) >>

withAggregatesFilters(t) ==
  << ScalarFilterFragment(t.name \o "WithAggregatesFilterSchema",
       Lazy(Object(scalarFilterEntries(t, t.name \o "WithAggregatesFilterSchema", FALSE)
                   \o scalarAggregateEntries(t, "")))),
     ScalarFilterFragment(t.name \o "NullableWithAggregatesFilterSchema",
       Lazy(Object(scalarFilterEntries(t, t.name \o "NullableWithAggregatesFilterSchema", TRUE)
                   \o scalarAggregateEntries(t, "Nullable")))) >>
  \o (IF t.name = "Float"
      THEN << ScalarFilterFragment("DecimalWithAggregatesFilterSchema",
                                   Ref("FloatWithAggregatesFilterSchema")),
              ScalarFilterFragment("DecimalNullableWithAggregatesFilterSchema",
                                   Ref("FloatNullableWithAggregatesFilterSchema")) >>
      ELSE <<>>)

DecimalListType == [ScalarFilterTypes[3] EXCEPT !.name = "Decimal"]

\* the order of the list filters and of the WithAggregates filters in the source
ListFilterOrder == <<1, 2, 3, 4, 5, 6, 8, 7>>

scalarFilterParts ==
  FlatMap(ScalarFilterTypes, plainFilters)
  \o FlatMap([i \in 1..Len(ListFilterOrder) |-> ScalarFilterTypes[ListFilterOrder[i]]],
             listFilter)
  \o listFilter(DecimalListType)
  \o FlatMap([i \in 1..Len(ListFilterOrder) |-> ScalarFilterTypes[ListFilterOrder[i]]],
             withAggregatesFilters)

generateScalarFilterSchemas(models) ==
  IF isTypeUsed(models, "String", FALSE, FALSE) \/ isTypeUsed(models, "String", TRUE, FALSE)
  THEN scalarFilterParts
  ELSE <<>>

(***************************************************************************)
(* builders/where-input: WhereInput, ListRelationFilter and the having     *)
(* input ScalarWhereWithAggregatesInput                                    *)
(***************************************************************************)
ScalarFilterFamily(type) ==
  CASE type = "String" -> "String"
    [] type = "Int" -> "Int"
    [] type = "BigInt" -> "BigInt"
    [] type = "Float" -> "Float"
    [] type = "Decimal" -> "Decimal"
    [] type = "Boolean" -> "Bool"
    [] type = "DateTime" -> "DateTime"
    [] type = "Json" -> "Json"
    [] type = "Bytes" -> "Bytes"
    [] OTHER -> "String"

getFilterSchemaName(field) ==
  IF field.kind = "enum"
  THEN IF field.isList THEN field.type \o "NullableListFilterSchema"
       ELSE IF ~field.isRequired THEN field.type \o "NullableFilterSchema"
       ELSE field.type \o "FilterSchema"
  ELSE IF field.isList THEN ScalarFilterFamily(field.type) \o "ListFilterSchema"
  ELSE IF ~field.isRequired THEN ScalarFilterFamily(field.type) \o "NullableFilterSchema"
  ELSE ScalarFilterFamily(field.type) \o "FilterSchema"

getDirectValueSchema(field) ==
  IF field.kind = "enum"
  THEN IF field.isRequired THEN Picklist(field.type \o "Enum")
       ELSE Nullable(Picklist(field.type \o "Enum"))
  ELSE IF field.isRequired THEN getBaseValibotType(field.type)
  ELSE Nullish(getBaseValibotType(field.type))

\* the AND / OR / NOT entries of the where input and of the having input
logicalOperators(schemaName) ==
  << Entry("AND", Optional(Lazy(Union(<<Array(Ref(schemaName)), Ref(schemaName)>>)))),
     Entry("OR", Optional(Lazy(Array(Ref(schemaName))))),
     Entry("NOT", Optional(Lazy(Union(<<Array(Ref(schemaName)), Ref(schemaName)>>)))) >>

\* faulty variant: a list-valued field also takes the bare value
whereInputEntryBareList(field) ==
  IF field.kind = "scalar" \/ field.kind = "enum"
  THEN <<Entry(field.name,
               Optional(Lazy(Union(<< Ref(getFilterSchemaName(field)),
                                      getDirectValueSchema(field) >>))))>>
  ELSE <<>>

\* faulty variant: the literal null of a nullable relation is tried last
whereInputEntryNullLast(field) ==
  IF field.kind = "object" /\ ~field.isList
  THEN <<Entry(field.name, Optional(Lazy(Union(
          << StrictObject(<< Entry("is", Optional(Ref(field.type \o "WhereInputSchema"))),
                             Entry("isNot", Optional(Ref(field.type \o "WhereInputSchema"))) >>),
             Ref(field.type \o "WhereInputSchema") >>
          \o (IF field.isRequired THEN <<>> ELSE <<Prim("v.null()")>>)))))>>
  ELSE <<>>

whereInputEntry(field) ==
  IF field.kind = "scalar" \/ field.kind = "enum"
  THEN IF field.isList
       THEN <<Entry(field.name, Optional(Lazy(Ref(getFilterSchemaName(field)))))>>
       ELSE <<Entry(field.name,
                    Optional(Lazy(Union(<< Ref(getFilterSchemaName(field)),
                                           getDirectValueSchema(field) >>))))>>
  ELSE IF field.kind = "object"
  THEN IF field.isList
       THEN <<Entry(field.name, Optional(Lazy(Ref(field.type \o "ListRelationFilterSchema"))))>>
       ELSE IF field.isRequired
       THEN <<Entry(field.name, Optional(Lazy(Union(
               << StrictObject(<< Entry("is", Optional(Ref(field.type \o "WhereInputSchema"))),
                                  Entry("isNot", Optional(Ref(field.type \o "WhereInputSchema"))) >>),
                  Ref(field.type \o "WhereInputSchema") >>))))>>
       ELSE <<Entry(field.name, Optional(Lazy(Union(
               << Prim("v.null()"),
                  StrictObject(
                    << Entry("is", Optional(Nullable(Ref(field.type \o "WhereInputSchema")))),
                       Entry("isNot", Optional(Nullable(Ref(field.type \o "WhereInputSchema")))) >>),
                  Ref(field.type \o "WhereInputSchema") >>))))>>
  ELSE <<>>

generateWhereInputSchema(model) ==
  << Fragment(model.name \o "WhereInputSchema", "generateWhereInputSchema", model.name, "", 2,
              Lazy(Object(logicalOperators(model.name \o "WhereInputSchema")
                          \o FlatMap(model.fields, whereInputEntry)))) >>

generateListRelationFilterSchema(model) ==
  << Fragment(model.name \o "ListRelationFilterSchema", "generateListRelationFilterSchema",
              model.name, "", 2,
              Object(<< Entry("every", Optional(Lazy(Ref(model.name \o "WhereInputSchema")))),
                        Entry("some", Optional(Lazy(Ref(model.name \o "WhereInputSchema")))),
                        Entry("none", Optional(Lazy(Ref(model.name \o "WhereInputSchema")))) >>)) >>

getWithAggregatesFilterSchemaName(field) ==
  IF field.kind = "enum"
  THEN IF ~field.isRequired THEN field.type \o "NullableWithAggregatesFilterSchema"
       ELSE field.type \o "WithAggregatesFilterSchema"
  ELSE IF ~field.isRequired
  THEN ScalarFilterFamily(field.type) \o "NullableWithAggregatesFilterSchema"
  ELSE ScalarFilterFamily(field.type) \o "WithAggregatesFilterSchema"

getWithAggregatesDirectValueSchema(field) == getDirectValueSchema(field)

havingEntry(field) ==
  IF (field.kind = "scalar" \/ field.kind = "enum") /\ ~field.isList
  THEN <<Entry(field.name,
               Optional(Lazy(Union(<< Ref(getWithAggregatesFilterSchemaName(field)),
                                      getWithAggregatesDirectValueSchema(field) >>))))>>
  ELSE <<>>

generateScalarWhereWithAggregatesInputSchema(model) ==
  << Fragment(model.name \o "ScalarWhereWithAggregatesInputSchema",
              "generateScalarWhereWithAggregatesInputSchema", model.name, "", 4,
              Lazy(Object(logicalOperators(model.name \o "ScalarWhereWithAggregatesInputSchema")
                          \o FlatMap(model.fields, havingEntry)))) >>

(***************************************************************************)
(* builders/where-unique                                                   *)
(***************************************************************************)
getScalarType(type) ==
  CASE type = "String" -> Prim("v.string()")
    [] type = "Int" -> Prim("v.number()")
    [] type = "BigInt" -> Prim("v.bigint()")
    [] type = "Float" -> Prim("v.number()")
    [] type = "Decimal" -> Prim("v.number()")
    [] type = "Boolean" -> Prim("v.boolean()")
    [] type = "DateTime" -> Prim("v.pipe(v.string(), v.isoDateTime())")
    [] type = "Json" -> Prim("v.any()")
    [] type = "Bytes" -> Prim("v.instance(Buffer)")
    [] OTHER -> Prim("v.any()")

uniqueFieldType(field) ==
  IF field.kind = "enum" THEN Picklist(field.type \o "Enum") ELSE getScalarType(field.type)

uniqueConstraint(field) ==
  IF (field.isId \/ field.isUnique) /\ (field.kind = "scalar" \/ field.kind = "enum")
  THEN <<Object(<<Entry(field.name, uniqueFieldType(field))>>)>>
  ELSE <<>>

\* index.fields.join('_')
RECURSIVE JoinUnderscore(_)
JoinUnderscore(names) ==
  IF Len(names) = 0 THEN ""
  ELSE IF Len(names) = 1 THEN names[1]
  ELSE names[1] \o "_" \o JoinUnderscore(Tail(names))

\* the arm of a @@unique over more than one field
compoundConstraint(model, index) ==
  LET compoundField(fieldName) ==
        LET named(f) == f.name = fieldName
            field == FindFirst(model.fields, named, NoField)
        IN IF field = NoField THEN <<>> ELSE <<Entry(fieldName, uniqueFieldType(field))>>
  IN IF Len(index) > 1
     THEN <<Object(<<Entry(JoinUnderscore(index), Object(FlatMap(index, compoundField)))>>)>>
     ELSE <<>>

compoundConstraints(model) ==
  LET one(index) == compoundConstraint(model, index)
  IN FlatMap(model.uniqueIndexes, one)

generateWhereUniqueInputSchema(model) ==
  LET uniqueConstraints == FlatMap(model.fields, uniqueConstraint) \o compoundConstraints(model)
  IN << Fragment(model.name \o "WhereUniqueInputSchema", "generateWhereUniqueInputSchema",
                 model.name, "", 2,
                 IF Len(uniqueConstraints) = 1 THEN uniqueConstraints[1]
                 ELSE Union(uniqueConstraints)) >>

(***************************************************************************)
(* builders/orderby-input                                                  *)
(***************************************************************************)
isNumericType(type) == type \in {"Int", "Float", "Decimal", "BigInt"}

hasNumericFields(model) ==
  \E j \in 1..Len(model.fields) :
     model.fields[j].kind = "scalar" /\ isNumericType(model.fields[j].type)

sortEntry(field) ==
  IF field.isRequired THEN Entry(field.name, Optional(Ref("SortOrderSchema")))
  ELSE Entry(field.name,
             Optional(Union(<<Ref("SortOrderSchema"), Ref("SortOrderInputSchema")>>)))

orderByEntry(field) ==
  IF field.kind = "scalar" \/ field.kind = "enum" THEN <<sortEntry(field)>>
  ELSE IF field.kind = "object"
  THEN IF field.isList
       THEN <<Entry(field.name,
                    Optional(Lazy(Ref(field.type \o "OrderByRelationAggregateInputSchema"))))>>
       ELSE <<Entry(field.name, Optional(Lazy(Ref(field.type \o "OrderByInputSchema"))))>>
  ELSE <<>>

generateOrderBySchema(model) ==
  << Fragment(model.name \o "OrderByInputSchema", "generateOrderBySchema", model.name, "", 2,
              Lazy(Object(FlatMap(model.fields, orderByEntry)))) >>

generateOrderByRelationAggregateSchema(model) ==
  << Fragment(model.name \o "OrderByRelationAggregateInputSchema",
              "generateOrderByRelationAggregateSchema", model.name, "", 2,
              Object(<<Entry("_count", Optional(Ref("SortOrderSchema")))>>)) >>

aggregationSortEntry(field) ==
  IF field.kind = "scalar" \/ field.kind = "enum" THEN <<sortEntry(field)>> ELSE <<>>

generateOrderByWithAggregationInputSchema(model) ==
  << Fragment(model.name \o "OrderByWithAggregationInputSchema",
              "generateOrderByWithAggregationInputSchema", model.name, "", 4,
              Lazy(Object(
                FlatMap(model.fields, aggregationSortEntry)
                \o << Entry("_count", Optional(Ref(model.name \o "CountOrderByAggregateInputSchema"))),
                      Entry("_max", Optional(Ref(model.name \o "MaxOrderByAggregateInputSchema"))),
                      Entry("_min", Optional(Ref(model.name \o "MinOrderByAggregateInputSchema"))) >>
                \o (IF hasNumericFields(model)
                    THEN << Entry("_sum", Optional(Ref(model.name \o "SumOrderByAggregateInputSchema"))),
                            Entry("_avg", Optional(Ref(model.name \o "AvgOrderByAggregateInputSchema"))) >>
                    ELSE <<>>)))) >>

\* one entry per scalar or enum field (numericOnly: per numeric scalar field)
aggregateFields(model, numericOnly, e) ==
  LET one(field) ==
        IF numericOnly
        THEN IF field.kind = "scalar" /\ isNumericType(field.type)
             THEN <<Entry(field.name, Optional(e))>> ELSE <<>>
        ELSE IF field.kind = "scalar" \/ field.kind = "enum"
             THEN <<Entry(field.name, Optional(e))>> ELSE <<>>
  IN FlatMap(model.fields, one)

\* the Sum and Avg inputs are v.never() when the model has no numeric field
numericAggregateBody(model, e) ==
  IF Len(aggregateFields(model, TRUE, e)) = 0 THEN Prim("v.never()")
  ELSE Object(aggregateFields(model, TRUE, e))

OrderByAggregate(model, which, body) ==
  << Fragment(model.name \o which \o "OrderByAggregateInputSchema",
              "generate" \o which \o "OrderByAggregateInputSchema", model.name, "", 4, body) >>

generateCountOrderByAggregateInputSchema(model) ==
  OrderByAggregate(model, "Count", Object(aggregateFields(model, FALSE, Ref("SortOrderSchema"))))

generateSumOrderByAggregateInputSchema(model) ==
  OrderByAggregate(model, "Sum", numericAggregateBody(model, Ref("SortOrderSchema")))

generateAvgOrderByAggregateInputSchema(model) ==
  OrderByAggregate(model, "Avg", numericAggregateBody(model, Ref("SortOrderSchema")))

generateMinOrderByAggregateInputSchema(model) ==
  OrderByAggregate(model, "Min", Object(aggregateFields(model, FALSE, Ref("SortOrderSchema"))))

generateMaxOrderByAggregateInputSchema(model) ==
  OrderByAggregate(model, "Max", Object(aggregateFields(model, FALSE, Ref("SortOrderSchema"))))

(***************************************************************************)
(* builders/aggregate-schema                                               *)
(***************************************************************************)
LiteralTrue == Prim("v.literal(true)")

AggregateInput(model, which, body) ==
  << Fragment(model.name \o which \o "AggregateInputSchema",
              "generate" \o which \o "AggregateInputSchema", model.name, "", 4, body) >>

generateCountAggregateInputSchema(model) ==
  AggregateInput(model, "Count",
                 Object(aggregateFields(model, FALSE, LiteralTrue)
                        \o <<Entry("_all", Optional(LiteralTrue))>>))

generateSumAggregateInputSchema(model) ==
  AggregateInput(model, "Sum", numericAggregateBody(model, LiteralTrue))

generateAvgAggregateInputSchema(model) ==
  AggregateInput(model, "Avg", numericAggregateBody(model, LiteralTrue))

generateMinAggregateInputSchema(model) ==
  AggregateInput(model, "Min", Object(aggregateFields(model, FALSE, LiteralTrue)))

generateMaxAggregateInputSchema(model) ==
  AggregateInput(model, "Max", Object(aggregateFields(model, FALSE, LiteralTrue)))

(***************************************************************************)
(* builders/select-include                                                 *)
(***************************************************************************)
hasListRelations(model) ==
  \E j \in 1..Len(model.fields) : model.fields[j].kind = "object" /\ model.fields[j].isList

relationSelection(field) ==
  IF field.isList
  THEN Entry(field.name,
             Optional(Union(<<Prim("v.boolean()"), Lazy(Ref(field.type \o "FindManyArgsSchema"))>>)))
  ELSE Entry(field.name,
             Optional(Union(<<Prim("v.boolean()"), Lazy(Ref(field.type \o "ArgsSchema"))>>)))

countSelection(model) ==
  IF hasListRelations(model)
  THEN <<Entry("_count",
               Optional(Union(<< Prim("v.boolean()"),
                                 Lazy(Ref(model.name \o "CountOutputTypeDefaultArgsSchema")) >>)))>>
  ELSE <<>>

selectEntry(field) ==
  IF field.kind = "object" THEN <<relationSelection(field)>>
  ELSE <<Entry(field.name, Optional(Prim("v.boolean()")))>>

generateSelectSchema(model) ==
  << Fragment(model.name \o "SelectSchema", "generateSelectSchema", model.name, "", 2,
              Lazy(Object(FlatMap(model.fields, selectEntry) \o countSelection(model)))) >>

includeEntry(field) == IF field.kind = "object" THEN <<relationSelection(field)>> ELSE <<>>

generateIncludeSchema(model) ==
  << Fragment(model.name \o "IncludeSchema", "generateIncludeSchema", model.name, "", 2,
              IF Len(FlatMap(model.fields, includeEntry)) = 0 THEN Prim("v.never()")
              ELSE Lazy(Object(FlatMap(model.fields, includeEntry) \o countSelection(model)))) >>

(***************************************************************************)
(* builders/query-args, delete-args, aggregate-args, groupby-args          *)
(***************************************************************************)
Number == Prim("v.number()")

selectInclude(model) ==
  << Entry("select", Optional(Ref(model.name \o "SelectSchema"))),
     Entry("include", Optional(Ref(model.name \o "IncludeSchema"))) >>

findEntries(model) ==
  selectInclude(model)
  \o << Entry("where", Optional(Ref(model.name \o "WhereInputSchema"))),
        Entry("orderBy", Optional(Union(<< Ref(model.name \o "OrderByInputSchema"),
                                           Array(Ref(model.name \o "OrderByInputSchema")) >>))),
        Entry("cursor", Optional(Ref(model.name \o "WhereUniqueInputSchema"))),
        Entry("take", Optional(Number)),
        Entry("skip", Optional(Number)),
        Entry("distinct", Optional(Array(PicklistKeys(model.name \o "ScalarFieldEnum")))) >>

generateFindManyArgsSchema(model) ==
  << Fragment(model.name \o "FindManyArgsSchema", "generateFindManyArgsSchema", model.name, "", 4,
              Lazy(Object(findEntries(model)))) >>

generateFindFirstArgsSchema(model) ==
  << Fragment(model.name \o "FindFirstArgsSchema", "generateFindFirstArgsSchema", model.name, "", 4,
              Lazy(Object(findEntries(model)))) >>

generateFindUniqueArgsSchema(model) ==
  << Fragment(model.name \o "FindUniqueArgsSchema", "generateFindUniqueArgsSchema", model.name, "", 4,
              Lazy(Object(selectInclude(model)
                          \o <<Entry("where", Ref(model.name \o "WhereUniqueInputSchema"))>>))) >>

generateArgsSchema(model) ==
  << Fragment(model.name \o "ArgsSchema", "generateArgsSchema", model.name, "", 4,
              Lazy(Object(selectInclude(model)))) >>

generateDeleteArgsSchema(model) ==
  << Fragment(model.name \o "DeleteArgsSchema", "generateDeleteArgsSchema", model.name, "", 4,
              Lazy(Object(selectInclude(model)
                          \o <<Entry("where", Ref(model.name \o "WhereUniqueInputSchema"))>>))) >>

generateDeleteManyArgsSchema(model) ==
  << Fragment(model.name \o "DeleteManyArgsSchema", "generateDeleteManyArgsSchema", model.name, "", 4,
              Lazy(Object(<<Entry("where", Optional(Ref(model.name \o "WhereInputSchema")))>>))) >>

Min == <<"min", "Min">>
Max == <<"max", "Max">>
Avg == <<"avg", "Avg">>
Sum == <<"sum", "Sum">>

aggregateSelections(model, order) ==
  <<Entry("_count", Optional(Union(<<LiteralTrue, Ref(model.name \o "CountAggregateInputSchema")>>)))>>
  \o [i \in 1..4 |-> Entry("_" \o order[i][1],
                           Optional(Ref(model.name \o order[i][2]
                                        \o "AggregateInputSchema")))]

generateAggregateArgsSchema(model) ==
  << Fragment(model.name \o "AggregateArgsSchema", "generateAggregateArgsSchema", model.name, "", 4,
              Object(<< Entry("where", Optional(Ref(model.name \o "WhereInputSchema"))),
                        Entry("orderBy",
                              Optional(Union(<< Ref(model.name \o "OrderByInputSchema"),
                                                Array(Ref(model.name \o "OrderByInputSchema")) >>))),
                        Entry("cursor", Optional(Ref(model.name \o "WhereUniqueInputSchema"))),
                        Entry("take", Optional(Number)),
                        Entry("skip", Optional(Number)) >>
                     \o aggregateSelections(model, <<Min, Max, Avg, Sum>>))) >>

groupByCommon(model) ==
  << Entry("by", Union(<< Array(Picklist(model.name \o "ScalarFieldEnum")),
                          Picklist(model.name \o "ScalarFieldEnum") >>)),
     Entry("where", Optional(Ref(model.name \o "WhereInputSchema"))),
     Entry("having", Optional(Ref(model.name \o "ScalarWhereWithAggregatesInputSchema"))) >>
  \o aggregateSelections(model, <<Avg, Sum, Min, Max>>)

groupByOrderBy(model) ==
  Union(<< Ref(model.name \o "OrderByWithAggregationInputSchema"),
           Array(Ref(model.name \o "OrderByWithAggregationInputSchema")) >>)

generateGroupByArgsSchema(model) ==
  << Fragment(model.name \o "GroupByArgsSchema", "generateGroupByArgsSchema", model.name, "", 4,
              Lazy(Union(
                << Object(groupByCommon(model)
                          \o <<Entry("orderBy", Optional(groupByOrderBy(model)))>>),
                   Object(groupByCommon(model)
                          \o << Entry("orderBy", groupByOrderBy(model)),
                                Entry("take", Optional(Number)),
                                Entry("skip", Optional(Number)) >>) >>))) >>

(***************************************************************************)
(* builders/create-args                                                    *)
(***************************************************************************)
\* s.filter(P)
Filter(s, P(_)) ==
  LET keep(x) == IF P(x) THEN <<x>> ELSE <<>>
  IN FlatMap(s, keep)

findModel(allModels, name) ==
  LET named(m) == m.name = name
  IN FindFirst(allModels, named, NoModel)

\* faulty variant: always takes the fallback, never the reverse field
findReverseRelationFieldNameFallback(currentModel, field, allModels) ==
  currentModel.name

findReverseRelationFieldName(currentModel, field, allModels) ==
  LET relatedModel == findModel(allModels, field.type)
      candidate(f) == /\ f.kind = "object"
                      /\ f.type = currentModel.name
                      /\ f.relationName = field.relationName
                      /\ f.name # field.name
      candidateFields == Filter(relatedModel.fields, candidate)
      sameListness(f) == f.isList = field.isList
      matchingListness == FindFirst(candidateFields, sameListness, NoField)
  IN IF relatedModel = NoModel THEN currentModel.name
     ELSE IF Len(candidateFields) > 1 /\ matchingListness # NoField THEN matchingListness.name
     ELSE IF Len(candidateFields) > 0 THEN candidateFields[1].name
     ELSE currentModel.name

\* faulty variant: reads relationFromFields of the scalar field itself
isOwnRelationForeignKey(model, field) ==
  field.name \in field.relationFromFields

isRelationForeignKey(model, field) ==
  \E j \in 1..Len(model.fields) :
     model.fields[j].kind = "object" /\ field.name \in model.fields[j].relationFromFields

\* a scalar or enum entry of a create input
createScalarEntry(field) ==
  Entry(field.name,
        wrapOptional(IF ~field.isRequired /\ ~field.hasDefaultValue
                     THEN Nullable(fieldValibotType(field))
                     ELSE fieldValibotType(field),
                     field.isRequired /\ ~field.hasDefaultValue))

\* faulty variant: names the nested input outside of a v.lazy getter
createRelationEntryEager(model, field, allModels) ==
  LET Rev == Capitalize(findReverseRelationFieldName(model, field, allModels))
      many == IF field.isList THEN "CreateNestedManyWithout" ELSE "CreateNestedOneWithout"
      nestedSchema == Ref(field.type \o many \o Rev \o "InputSchema")
  IN Entry(field.name,
           IF field.isList \/ ~field.isRequired THEN Optional(nestedSchema) ELSE nestedSchema)

\* faulty variant: wraps every relation entry in v.optional
createRelationEntryOptional(model, field, allModels) ==
  LET Rev == Capitalize(findReverseRelationFieldName(model, field, allModels))
      many == IF field.isList THEN "CreateNestedManyWithout" ELSE "CreateNestedOneWithout"
  IN Entry(field.name, Optional(Lazy(Ref(field.type \o many \o Rev \o "InputSchema"))))

\* a relation entry of a checked create input
createRelationEntry(model, field, allModels) ==
  LET Rev == Capitalize(findReverseRelationFieldName(model, field, allModels))
      nestedSchema == Lazy(Ref(field.type \o "CreateNestedOneWithout" \o Rev \o "InputSchema"))
  IN IF field.isList
     THEN Entry(field.name,
                Optional(Lazy(Ref(field.type \o "CreateNestedManyWithout" \o Rev \o "InputSchema"))))
     ELSE Entry(field.name, IF field.isRequired THEN nestedSchema ELSE Optional(nestedSchema))

\* the entries of a checked create input that leaves out the field named skip
createEntries(model, allModels, skip) ==
  LET one(field) ==
        IF field.name = skip THEN <<>>
        ELSE IF field.kind = "object" THEN <<createRelationEntry(model, field, allModels)>>
        ELSE IF isRelationForeignKey(model, field) THEN <<>>
        ELSE <<createScalarEntry(field)>>
  IN FlatMap(model.fields, one)

generateCreateInputSchema(model, allModels) ==
  << Fragment(model.name \o "CreateInputSchema", "generateCreateInputSchema", model.name, "", 3,
              Object(createEntries(model, allModels, ""))) >>

\* a list relation entry of an unchecked create input
uncheckedCreateRelationEntry(model, field, allModels) ==
  LET Rev == Capitalize(findReverseRelationFieldName(model, field, allModels))
  IN Entry(field.name,
           Optional(Lazy(Ref(field.type \o "UncheckedCreateNestedManyWithout" \o Rev
                             \o "InputSchema"))))

generateUncheckedCreateInputSchema(model, allModels) ==
  LET one(field) ==
        IF field.kind = "object"
        THEN IF field.isList THEN <<uncheckedCreateRelationEntry(model, field, allModels)>>
             ELSE <<>>
        ELSE <<createScalarEntry(field)>>
  IN << Fragment(model.name \o "UncheckedCreateInputSchema", "generateUncheckedCreateInputSchema",
                 model.name, "", 3, Object(FlatMap(model.fields, one))) >>

\* v.union([X, v.array(X)]): the single item first, then the array
oneOrMany(e) == Union(<<e, Array(e)>>)

genericNestedMany(model, createName) ==
  Lazy(Object(
    << Entry("create", Optional(oneOrMany(Lazy(Ref(model.name \o createName))))),
       Entry("connectOrCreate",
             Optional(oneOrMany(Lazy(Ref(model.name \o "CreateOrConnectInputSchema"))))),
       Entry("connect", Optional(oneOrMany(Ref(model.name \o "WhereUniqueInputSchema")))) >>))

generateUncheckedCreateNestedManyInputSchema(model) ==
  << Fragment(model.name \o "UncheckedCreateNestedManyInputSchema",
              "generateUncheckedCreateNestedManyInputSchema", model.name, "", 3,
              genericNestedMany(model, "UncheckedCreateInputSchema")) >>

generateCreateNestedManyInputSchema(model) ==
  << Fragment(model.name \o "CreateNestedManyInputSchema", "generateCreateNestedManyInputSchema",
              model.name, "", 3, genericNestedMany(model, "CreateInputSchema")) >>

generateCreateNestedOneInputSchema(model) ==
  << Fragment(model.name \o "CreateNestedOneInputSchema", "generateCreateNestedOneInputSchema",
              model.name, "", 3,
              Lazy(Object(
                << Entry("create", Optional(Lazy(Ref(model.name \o "CreateInputSchema")))),
                   Entry("connectOrCreate",
                         Optional(Lazy(Ref(model.name \o "CreateOrConnectInputSchema")))),
                   Entry("connect", Optional(Ref(model.name \o "WhereUniqueInputSchema"))) >>))) >>

generateCreateArgsSchema(model) ==
  << Fragment(model.name \o "CreateArgsSchema", "generateCreateArgsSchema", model.name, "", 4,
              Object(selectInclude(model)
                     \o <<Entry("data", Union(<< Ref(model.name \o "CreateInputSchema"),
                                                 Ref(model.name \o "UncheckedCreateInputSchema") >>))>>)) >>

\* for (otherModel of allModels) for (field of otherModel.fields)
\*   if (field.kind === 'object' && field.type === model.name && field.isList === isList)
incomingRelations(model, allModels, isList) ==
  LET ofModel(otherModel) ==
        LET one(field) ==
              IF field.kind = "object" /\ field.type = model.name /\ field.isList = isList
              THEN <<[otherModel |-> otherModel, field |-> field]>>
              ELSE <<>>
        IN FlatMap(otherModel.fields, one)
  IN FlatMap(allModels, ofModel)

\* the reverse field looked up with the f.name !== field.name test
reverseFieldNameExcludingSelf(model, in) ==
  LET back(f) == /\ f.kind = "object"
                 /\ f.type = in.otherModel.name
                 /\ f.relationName = in.field.relationName
                 /\ f.name # in.field.name
      reverseField == FindFirst(model.fields, back, NoField)
  IN IF reverseField # NoField THEN reverseField.name ELSE in.otherModel.name

\* the reverse field looked up without that test
reverseFieldNameAny(model, in) ==
  LET back(f) == /\ f.kind = "object"
                 /\ f.type = in.otherModel.name
                 /\ f.relationName = in.field.relationName
      reverseField == FindFirst(model.fields, back, NoField)
  IN IF reverseField # NoField THEN reverseField.name ELSE in.otherModel.name

\* faulty variant: the nested create falls back to the unreduced create inputs
createWithoutUnionFull(model, Rev) ==
  Union(<< Lazy(Ref(model.name \o "CreateInputSchema")),
           Lazy(Ref(model.name \o "UncheckedCreateInputSchema")) >>)

createWithoutUnion(model, Rev) ==
  Union(<< Lazy(Ref(model.name \o "CreateWithout" \o Rev \o "InputSchema")),
           Lazy(Ref(model.name \o "UncheckedCreateWithout" \o Rev \o "InputSchema")) >>)

generateCreateNestedOneWithoutInputSchemas(model, allModels) ==
  LET one(in) ==
        LET Rev == Capitalize(reverseFieldNameExcludingSelf(model, in))
        IN << Fragment(model.name \o "CreateNestedOneWithout" \o Rev \o "InputSchema",
                "generateCreateNestedOneWithoutInputSchemas", model.name, Rev, 3,
                Lazy(Object(
                  << Entry("create", Optional(createWithoutUnion(model, Rev))),
                     Entry("connectOrCreate",
                           Optional(Lazy(Ref(model.name \o "CreateOrConnectWithout" \o Rev
                                             \o "InputSchema")))),
                     Entry("connect", Optional(Ref(model.name \o "WhereUniqueInputSchema"))) >>))) >>
  IN FlatMap(incomingRelations(model, allModels, FALSE), one)

\* the body shared by CreateNestedManyWithout and UncheckedCreateNestedManyWithout
nestedManyWithoutBody(model, Rev) ==
  LET C == Lazy(Ref(model.name \o "CreateWithout" \o Rev \o "InputSchema"))
      U == Lazy(Ref(model.name \o "UncheckedCreateWithout" \o Rev \o "InputSchema"))
  IN Lazy(Object(
       << Entry("create", Optional(Union(<<C, U, Array(C), Array(U)>>))),
          Entry("connectOrCreate",
                Optional(oneOrMany(Lazy(Ref(model.name \o "CreateOrConnectWithout" \o Rev
                                            \o "InputSchema"))))),
          Entry("createMany",
                Optional(Lazy(Ref(model.name \o "CreateMany" \o Rev \o "InputEnvelopeSchema")))),
          Entry("connect", Optional(oneOrMany(Ref(model.name \o "WhereUniqueInputSchema")))) >>))

generateCreateNestedManyWithoutInputSchemas(model, allModels) ==
  LET one(in) ==
        LET Rev == Capitalize(reverseFieldNameExcludingSelf(model, in))
        IN << Fragment(model.name \o "CreateNestedManyWithout" \o Rev \o "InputSchema",
                "generateCreateNestedManyWithoutInputSchemas", model.name, Rev, 3,
                nestedManyWithoutBody(model, Rev)) >>
  IN FlatMap(incomingRelations(model, allModels, TRUE), one)

generateUncheckedCreateNestedManyWithoutInputSchemas(model, allModels) ==
  LET one(in) ==
        LET Rev == Capitalize(reverseFieldNameAny(model, in))
        IN << Fragment(model.name \o "UncheckedCreateNestedManyWithout" \o Rev \o "InputSchema",
                "generateUncheckedCreateNestedManyWithoutInputSchemas", model.name, Rev, 3,
                nestedManyWithoutBody(model, Rev)) >>
  IN FlatMap(incomingRelations(model, allModels, TRUE), one)

relationFields(model) == Filter(model.fields, IsObject)

\* faulty variant: the reduced shapes keep the foreign keys of the relations
generateCreateWithoutInputSchemasKeepingKeys(model, allModels) ==
  LET one(excludedField) ==
        LET entry(field) ==
              IF field.name = excludedField.name THEN <<>>
              ELSE IF field.kind = "object"
              THEN <<createRelationEntry(model, field, allModels)>>
              ELSE <<createScalarEntry(field)>>
        IN << Fragment(model.name \o "CreateWithout" \o Capitalize(excludedField.name)
                         \o "InputSchema",
                "generateCreateWithoutInputSchemas", model.name, excludedField.name, 3,
                Object(FlatMap(model.fields, entry))) >>
  IN FlatMap(relationFields(model), one)

generateCreateWithoutInputSchemas(model, allModels) ==
  LET one(excludedField) ==
        << Fragment(model.name \o "CreateWithout" \o Capitalize(excludedField.name) \o "InputSchema",
             "generateCreateWithoutInputSchemas", model.name, excludedField.name, 3,
             Object(createEntries(model, allModels, excludedField.name))) >>
  IN FlatMap(relationFields(model), one)

generateUncheckedCreateWithoutInputSchemas(model, allModels) ==
  LET one(excludedField) ==
        LET entry(field) ==
              IF field.name = excludedField.name THEN <<>>
              ELSE IF field.kind = "object"
              THEN IF field.isList
                   THEN <<uncheckedCreateRelationEntry(model, field, allModels)>>
                   ELSE <<>>
              ELSE <<createScalarEntry(field)>>
        IN << Fragment(model.name \o "UncheckedCreateWithout" \o Capitalize(excludedField.name)
                         \o "InputSchema",
                "generateUncheckedCreateWithoutInputSchemas", model.name, excludedField.name, 3,
                Object(FlatMap(model.fields, entry))) >>
  IN FlatMap(relationFields(model), one)

generateCreateOrConnectWithoutInputSchemas(model) ==
  LET one(excludedField) ==
        LET Cap == Capitalize(excludedField.name)
        IN << Fragment(model.name \o "CreateOrConnectWithout" \o Cap \o "InputSchema",
                "generateCreateOrConnectWithoutInputSchemas", model.name, excludedField.name, 3,
                Lazy(Object(<< Entry("where", Ref(model.name \o "WhereUniqueInputSchema")),
                               Entry("create", createWithoutUnion(model, Cap)) >>))) >>
  IN FlatMap(relationFields(model), one)

generateCreateManyInputEnvelopeSchemas(model, allModels) ==
  LET one(in) ==
        LET Rev == Capitalize(reverseFieldNameAny(model, in))
        IN << Fragment(model.name \o "CreateMany" \o Rev \o "InputEnvelopeSchema",
                "generateCreateManyInputEnvelopeSchemas", model.name, Rev, 3,
                Lazy(Object(
                  << Entry("data", oneOrMany(Lazy(Ref(model.name \o "CreateMany" \o Rev
                                                      \o "InputSchema")))),
                     Entry("skipDuplicates", Optional(Prim("v.boolean()"))) >>))) >>
  IN FlatMap(incomingRelations(model, allModels, TRUE), one)

\* the entries of a createMany input: every scalar and enum field, never nullable
createManyEntries(model) ==
  LET one(field) ==
        IF field.kind = "object" THEN <<>>
        ELSE <<Entry(field.name,
                     wrapOptional(fieldValibotType(field),
                                  field.isRequired /\ ~field.hasDefaultValue))>>
  IN FlatMap(model.fields, one)

generateCreateManyWithoutInputSchemas(model, allModels) ==
  LET one(in) ==
        LET Rev == Capitalize(reverseFieldNameAny(model, in))
        IN << Fragment(model.name \o "CreateMany" \o Rev \o "InputSchema",
                "generateCreateManyWithoutInputSchemas", model.name, Rev, 3,
                Object(createManyEntries(model))) >>
  IN FlatMap(incomingRelations(model, allModels, TRUE), one)

generateCreateOrConnectInputSchema(model) ==
  << Fragment(model.name \o "CreateOrConnectInputSchema", "generateCreateOrConnectInputSchema",
              model.name, "", 3,
              Lazy(Object(<< Entry("where", Ref(model.name \o "WhereUniqueInputSchema")),
                             Entry("create", Lazy(Ref(model.name \o "CreateInputSchema"))) >>))) >>

generateCreateManyArgsSchema(model) ==
  << Fragment(model.name \o "CreateManyArgsSchema", "generateCreateManyArgsSchema", model.name, "", 4,
              Object(<< Entry("data", oneOrMany(Ref(model.name \o "CreateManyInputSchema"))),
                        Entry("skipDuplicates", Optional(Prim("v.boolean()"))) >>)) >>

generateCreateManyInputSchema(model) ==
  << Fragment(model.name \o "CreateManyInputSchema", "generateCreateManyInputSchema",
              model.name, "", 3, Object(createManyEntries(model))) >>

(***************************************************************************)
(* builders/update-args                                                    *)
(***************************************************************************)
\* a scalar or enum entry of an update input: always optional
updateScalarEntry(field) ==
  Entry(field.name,
        Optional(IF ~field.isRequired THEN Nullable(fieldValibotType(field))
                 ELSE fieldValibotType(field)))

updateRelationEntry(model, field, allModels) ==
  LET Rev == Capitalize(findReverseRelationFieldName(model, field, allModels))
  IN IF field.isList
     THEN Entry(field.name,
                Optional(Lazy(Ref(field.type \o "UpdateManyWithout" \o Rev \o "NestedInputSchema"))))
     ELSE Entry(field.name,
                Optional(Lazy(Ref(field.type \o "UpdateOneWithout" \o Rev \o "NestedInputSchema"))))

\* the entries of a checked update input that leaves out the field named skip
updateEntries(model, allModels, skip) ==
  LET one(field) ==
        IF field.name = skip THEN <<>>
        ELSE IF field.kind = "object" THEN <<updateRelationEntry(model, field, allModels)>>
        ELSE IF isRelationForeignKey(model, field) THEN <<>>
        ELSE <<updateScalarEntry(field)>>
  IN FlatMap(model.fields, one)

generateUpdateInputSchema(model, allModels) ==
  << Fragment(model.name \o "UpdateInputSchema", "generateUpdateInputSchema", model.name, "", 3,
              Lazy(Object(updateEntries(model, allModels, "")))) >>

\* the entries of an unchecked update input: no relation field at all
uncheckedUpdateEntries(model, skip) ==
  LET one(field) ==
        IF field.name = skip THEN <<>>
        ELSE IF field.kind = "object" THEN <<>>
        ELSE <<updateScalarEntry(field)>>
  IN FlatMap(model.fields, one)

generateUncheckedUpdateInputSchema(model) ==
  << Fragment(model.name \o "UncheckedUpdateInputSchema", "generateUncheckedUpdateInputSchema",
              model.name, "", 3, Lazy(Object(uncheckedUpdateEntries(model, "")))) >>

generateUpdateManyNestedInputSchema(model) ==
  LET W == Ref(model.name \o "WhereUniqueInputSchema")
      L(suffix) == Lazy(Ref(model.name \o suffix))
  IN << Fragment(model.name \o "UpdateManyNestedInputSchema", "generateUpdateManyNestedInputSchema",
                 model.name, "", 3,
                 Lazy(Object(
                   << Entry("create", Optional(oneOrMany(L("CreateInputSchema")))),
                      Entry("connectOrCreate", Optional(oneOrMany(L("CreateOrConnectInputSchema")))),
                      Entry("upsert", Optional(oneOrMany(L("UpsertWithWhereUniqueInputSchema")))),
                      Entry("set", Optional(oneOrMany(W))),
                      Entry("disconnect", Optional(oneOrMany(W))),
                      Entry("delete", Optional(oneOrMany(W))),
                      Entry("connect", Optional(oneOrMany(W))),
                      Entry("update", Optional(oneOrMany(L("UpdateWithWhereUniqueInputSchema")))),
                      Entry("updateMany", Optional(oneOrMany(L("UpdateManyWithWhereInputSchema")))),
                      Entry("deleteMany", Optional(oneOrMany(L("WhereInputSchema")))) >>))) >>

generateUpdateOneNestedInputSchema(model) ==
  LET L(suffix) == Lazy(Ref(model.name \o suffix))
  IN << Fragment(model.name \o "UpdateOneNestedInputSchema", "generateUpdateOneNestedInputSchema",
                 model.name, "", 3,
                 Lazy(Object(
                   << Entry("create", Optional(L("CreateInputSchema"))),
                      Entry("connectOrCreate", Optional(L("CreateOrConnectInputSchema"))),
                      Entry("upsert", Optional(L("UpsertInputSchema"))),
                      Entry("disconnect", Optional(Prim("v.boolean()"))),
                      Entry("delete", Optional(Prim("v.boolean()"))),
                      Entry("connect", Optional(Ref(model.name \o "WhereUniqueInputSchema"))),
                      Entry("update", Optional(L("UpdateInputSchema"))) >>))) >>

generateUpsertWithWhereUniqueInputSchema(model) ==
  << Fragment(model.name \o "UpsertWithWhereUniqueInputSchema",
              "generateUpsertWithWhereUniqueInputSchema", model.name, "", 3,
              Lazy(Object(<< Entry("where", Ref(model.name \o "WhereUniqueInputSchema")),
                             Entry("update", Lazy(Ref(model.name \o "UpdateInputSchema"))),
                             Entry("create", Lazy(Ref(model.name \o "CreateInputSchema"))) >>))) >>

generateUpsertInputSchema(model) ==
  << Fragment(model.name \o "UpsertInputSchema", "generateUpsertInputSchema", model.name, "", 3,
              Lazy(Object(<< Entry("update", Lazy(Ref(model.name \o "UpdateInputSchema"))),
                             Entry("create", Lazy(Ref(model.name \o "CreateInputSchema"))) >>))) >>

generateUpdateWithWhereUniqueInputSchema(model) ==
  << Fragment(model.name \o "UpdateWithWhereUniqueInputSchema",
              "generateUpdateWithWhereUniqueInputSchema", model.name, "", 3,
              Lazy(Object(<< Entry("where", Ref(model.name \o "WhereUniqueInputSchema")),
                             Entry("data", Lazy(Ref(model.name \o "UpdateInputSchema"))) >>))) >>

generateUpdateManyWithWhereInputSchema(model) ==
  << Fragment(model.name \o "UpdateManyWithWhereInputSchema",
              "generateUpdateManyWithWhereInputSchema", model.name, "", 3,
              Lazy(Object(<< Entry("where", Lazy(Ref(model.name \o "WhereInputSchema"))),
                             Entry("data", Lazy(Ref(model.name \o "UpdateManyMutationInputSchema"))) >>))) >>

generateUpdateManyMutationInputSchema(model) ==
  LET one(field) ==
        IF field.kind = "object" THEN <<>>
        ELSE <<Entry(field.name, Optional(fieldValibotType(field)))>>
  IN << Fragment(model.name \o "UpdateManyMutationInputSchema",
                 "generateUpdateManyMutationInputSchema", model.name, "", 3,
                 Lazy(Object(FlatMap(model.fields, one)))) >>

generateUpdateArgsSchema(model) ==
  << Fragment(model.name \o "UpdateArgsSchema", "generateUpdateArgsSchema", model.name, "", 4,
              Lazy(Object(selectInclude(model)
                \o << Entry("data", Union(<< Ref(model.name \o "UpdateInputSchema"),
                                             Ref(model.name \o "UncheckedUpdateInputSchema") >>)),
                      Entry("where", Ref(model.name \o "WhereUniqueInputSchema")) >>))) >>

generateUpdateManyArgsSchema(model) ==
  << Fragment(model.name \o "UpdateManyArgsSchema", "generateUpdateManyArgsSchema", model.name, "", 4,
              Lazy(Object(<< Entry("data", Ref(model.name \o "UpdateManyMutationInputSchema")),
                             Entry("where", Optional(Ref(model.name \o "WhereInputSchema"))) >>))) >>

generateUpsertArgsSchema(model) ==
  << Fragment(model.name \o "UpsertArgsSchema", "generateUpsertArgsSchema", model.name, "", 4,
              Lazy(Object(selectInclude(model)
                \o << Entry("where", Ref(model.name \o "WhereUniqueInputSchema")),
                      Entry("create", Lazy(Ref(model.name \o "CreateInputSchema"))),
                      Entry("update", Lazy(Ref(model.name \o "UpdateInputSchema"))) >>))) >>

updateWithoutUnion(model, Rev) ==
  Union(<< Lazy(Ref(model.name \o "UpdateWithout" \o Rev \o "InputSchema")),
           Lazy(Ref(model.name \o "UncheckedUpdateWithout" \o Rev \o "InputSchema")) >>)

generateUpdateWithoutInputSchemas(model, allModels) ==
  LET one(excludedField) ==
        << Fragment(model.name \o "UpdateWithout" \o Capitalize(excludedField.name) \o "InputSchema",
             "generateUpdateWithoutInputSchemas", model.name, excludedField.name, 3,
             Lazy(Object(updateEntries(model, allModels, excludedField.name)))) >>
  IN FlatMap(relationFields(model), one)

generateUncheckedUpdateWithoutInputSchemas(model) ==
  LET one(excludedField) ==
        << Fragment(model.name \o "UncheckedUpdateWithout" \o Capitalize(excludedField.name)
                      \o "InputSchema",
             "generateUncheckedUpdateWithoutInputSchemas", model.name, excludedField.name, 3,
             Lazy(Object(uncheckedUpdateEntries(model, excludedField.name)))) >>
  IN FlatMap(relationFields(model), one)

generateUpdateOneNestedWithoutInputSchemas(model, allModels) ==
  LET one(in) ==
        LET Rev == Capitalize(reverseFieldNameExcludingSelf(model, in))
            L(prefix) == Lazy(Ref(model.name \o prefix \o Rev \o "InputSchema"))
        IN << Fragment(model.name \o "UpdateOneWithout" \o Rev \o "NestedInputSchema",
                "generateUpdateOneNestedWithoutInputSchemas", model.name, Rev, 3,
                Lazy(Object(
                  << Entry("create", Optional(createWithoutUnion(model, Rev))),
                     Entry("connectOrCreate", Optional(L("CreateOrConnectWithout"))),
                     Entry("upsert", Optional(L("UpsertWithout"))),
                     Entry("disconnect", Optional(Prim("v.boolean()"))),
                     Entry("delete", Optional(Prim("v.boolean()"))),
                     Entry("connect", Optional(Ref(model.name \o "WhereUniqueInputSchema"))),
                     Entry("update", Optional(updateWithoutUnion(model, Rev))) >>))) >>
  IN FlatMap(incomingRelations(model, allModels, FALSE), one)

generateUpdateManyNestedWithoutInputSchemas(model, allModels) ==
  LET one(in) ==
        LET Rev == Capitalize(reverseFieldNameExcludingSelf(model, in))
            L(prefix) == Lazy(Ref(model.name \o prefix \o Rev \o "InputSchema"))
            W == Ref(model.name \o "WhereUniqueInputSchema")
        IN << Fragment(model.name \o "UpdateManyWithout" \o Rev \o "NestedInputSchema",
                "generateUpdateManyNestedWithoutInputSchemas", model.name, Rev, 3,
                Lazy(Object(
                  << Entry("create",
                           Optional(Union(<< L("CreateWithout"), L("UncheckedCreateWithout"),
                                             Array(L("CreateWithout")),
                                             Array(L("UncheckedCreateWithout")) >>))),
                     Entry("connectOrCreate", Optional(oneOrMany(L("CreateOrConnectWithout")))),
                     Entry("upsert", Optional(oneOrMany(L("UpsertWithWhereUniqueWithout")))),
                     Entry("set", Optional(oneOrMany(W))),
                     Entry("disconnect", Optional(oneOrMany(W))),
                     Entry("delete", Optional(oneOrMany(W))),
                     Entry("connect", Optional(oneOrMany(W))),
                     Entry("update", Optional(oneOrMany(L("UpdateWithWhereUniqueWithout")))),
                     Entry("updateMany", Optional(oneOrMany(L("UpdateManyWithWhereWithout")))),
                     Entry("deleteMany",
                           Optional(oneOrMany(Lazy(Ref(model.name \o "WhereInputSchema"))))) >>))) >>
  IN FlatMap(incomingRelations(model, allModels, TRUE), one)

\* one fragment per relation field of the model, named after the excluded field
perExcludedField(model, prefix, builder, entries(_)) ==
  LET one(excludedField) ==
        << Fragment(model.name \o prefix \o Capitalize(excludedField.name) \o "InputSchema",
                    builder, model.name, excludedField.name, 3,
                    Lazy(Object(entries(Capitalize(excludedField.name))))) >>
  IN FlatMap(relationFields(model), one)

generateUpsertWithoutInputSchemas(model) ==
  LET entries(Cap) == << Entry("update", updateWithoutUnion(model, Cap)),
                         Entry("create", createWithoutUnion(model, Cap)) >>
  IN perExcludedField(model, "UpsertWithout", "generateUpsertWithoutInputSchemas", entries)

generateUpsertWithWhereUniqueWithoutInputSchemas(model) ==
  LET entries(Cap) == << Entry("where", Ref(model.name \o "WhereUniqueInputSchema")),
                         Entry("update", updateWithoutUnion(model, Cap)),
                         Entry("create", createWithoutUnion(model, Cap)) >>
  IN perExcludedField(model, "UpsertWithWhereUniqueWithout",
                      "generateUpsertWithWhereUniqueWithoutInputSchemas", entries)

generateUpdateWithWhereUniqueWithoutInputSchemas(model) ==
  LET entries(Cap) == << Entry("where", Ref(model.name \o "WhereUniqueInputSchema")),
                         Entry("data", updateWithoutUnion(model, Cap)) >>
  IN perExcludedField(model, "UpdateWithWhereUniqueWithout",
                      "generateUpdateWithWhereUniqueWithoutInputSchemas", entries)

generateUpdateManyWithWhereWithoutInputSchemas(model) ==
  LET entries(Cap) == << Entry("where", Lazy(Ref(model.name \o "WhereInputSchema"))),
                         Entry("data", updateWithoutUnion(model, Cap)) >>
  IN perExcludedField(model, "UpdateManyWithWhereWithout",
                      "generateUpdateManyWithWhereWithoutInputSchemas", entries)

(***************************************************************************)
(* lib/generate-schemas: generateSchemas, one step per statement group     *)
(***************************************************************************)
models == dmmf.models

\* faulty variant: counts the targets of single relations too
modelsUsedAsRelations ==
  {field.type : field \in {f \in UNION {Range(models[i].fields) : i \in 1..Len(models)} :
                             f.kind = "object"}}

\* the names of the models some list relation field points at
modelsUsedAsListRelations ==
  {field.type : field \in {f \in UNION {Range(models[i].fields) : i \in 1..Len(models)} :
                             f.kind = "object" /\ f.isList}}

firstPass(model) == generateModelSchema(model) \o generateScalarFieldEnum(model)

\* faulty variant: the second loop emits the base schema of the model after its lookup shape
secondPassWithBase(model) ==
  generateWhereUniqueInputSchema(model) \o generateModelSchema(model)

secondPass(model) ==
  generateWhereUniqueInputSchema(model)
  \o generateWhereInputSchema(model)
  \o (IF model.name \in modelsUsedAsListRelations
      THEN generateListRelationFilterSchema(model) ELSE <<>>)
  \o generateOrderBySchema(model)
  \o (IF model.name \in modelsUsedAsListRelations
      THEN generateOrderByRelationAggregateSchema(model) ELSE <<>>)
  \o generateSelectSchema(model)
  \o generateIncludeSchema(model)

thirdPass(model) ==
  generateCreateInputSchema(model, models)
  \o generateUncheckedCreateInputSchema(model, models)
  \o generateCreateWithoutInputSchemas(model, models)
  \o generateUncheckedCreateWithoutInputSchemas(model, models)
  \o generateCreateOrConnectWithoutInputSchemas(model)
  \o generateCreateNestedOneWithoutInputSchemas(model, models)
  \o generateCreateNestedManyWithoutInputSchemas(model, models)
  \o generateUncheckedCreateNestedManyWithoutInputSchemas(model, models)
  \o generateCreateManyInputEnvelopeSchemas(model, models)
  \o generateCreateManyWithoutInputSchemas(model, models)
  \o generateCreateNestedManyInputSchema(model)
  \o generateUncheckedCreateNestedManyInputSchema(model)
  \o generateCreateNestedOneInputSchema(model)
  \o generateCreateOrConnectInputSchema(model)
  \o generateCreateManyInputSchema(model)
  \o generateUpdateInputSchema(model, models)
  \o generateUncheckedUpdateInputSchema(model)
  \o generateUpdateWithoutInputSchemas(model, models)
  \o generateUncheckedUpdateWithoutInputSchemas(model)
  \o generateUpdateOneNestedWithoutInputSchemas(model, models)
  \o generateUpdateManyNestedWithoutInputSchemas(model, models)
  \o generateUpsertWithoutInputSchemas(model)
  \o generateUpsertWithWhereUniqueWithoutInputSchemas(model)
  \o generateUpdateWithWhereUniqueWithoutInputSchemas(model)
  \o generateUpdateManyWithWhereWithoutInputSchemas(model)
  \o generateUpdateManyNestedInputSchema(model)
  \o generateUpdateOneNestedInputSchema(model)
  \o generateUpsertWithWhereUniqueInputSchema(model)
  \o generateUpsertInputSchema(model)
  \o generateUpdateWithWhereUniqueInputSchema(model)
  \o generateUpdateManyWithWhereInputSchema(model)
  \o generateUpdateManyMutationInputSchema(model)

fourthPass(model) ==
  generateArgsSchema(model)
  \o generateFindManyArgsSchema(model)
  \o generateFindFirstArgsSchema(model)
  \o generateFindUniqueArgsSchema(model)
  \o generateCreateArgsSchema(model)
  \o generateCreateManyArgsSchema(model)
  \o generateUpdateArgsSchema(model)
  \o generateUpdateManyArgsSchema(model)
  \o generateUpsertArgsSchema(model)
  \o generateDeleteArgsSchema(model)
  \o generateDeleteManyArgsSchema(model)
  \o generateCountOrderByAggregateInputSchema(model)
  \o generateSumOrderByAggregateInputSchema(model)
  \o generateAvgOrderByAggregateInputSchema(model)
  \o generateMinOrderByAggregateInputSchema(model)
  \o generateMaxOrderByAggregateInputSchema(model)
  \o generateOrderByWithAggregationInputSchema(model)
  \o generateCountAggregateInputSchema(model)
  \o generateSumAggregateInputSchema(model)
  \o generateAvgAggregateInputSchema(model)
  \o generateMinAggregateInputSchema(model)
  \o generateMaxAggregateInputSchema(model)
  \o generateScalarWhereWithAggregatesInputSchema(model)
  \o generateGroupByArgsSchema(model)
  \o generateAggregateArgsSchema(model)

generateValibotGroupByArgsGenericType ==
  << Fragment("ValibotGroupByArgs", "generateValibotGroupByArgsGenericType", "", "", 5,
              TypeAlias("GArgs")) >>

\* the output directory: whether it exists, and the files it holds
Absent == [exists |-> FALSE, entries |-> {}]

NothingParsed == [schema |-> "", key |-> "", input |-> <<"undefined">>, status |-> "",
                  output |-> <<"undefined">>]

Init ==
  /\ dmmf \in Graphs
  /\ pc = "start"
  /\ idx = 1
  /\ enumsContent = <<>>
  /\ indexContent = <<>>
  /\ files = <<>>
  /\ parsed = NothingParsed
  /\ outputDir = Absent

\* the shared sort-order and query-mode schemas open the document
Preamble ==
  /\ pc = "start"
  /\ indexContent' = preambleContent
  /\ pc' = "enums"
  /\ UNCHANGED <<dmmf, idx, enumsContent, files, parsed, outputDir>>

\* for (const enumDef of dmmf.datamodel.enums)
EnumStep ==
  /\ pc = "enums"
  /\ idx <= Len(dmmf.enums)
  /\ enumsContent' = enumsContent \o generateEnumSchema(dmmf.enums[idx])
                       \o generateEnumFilterSchema(dmmf.enums[idx], models)
  /\ idx' = idx + 1
  /\ UNCHANGED <<dmmf, pc, indexContent, files, parsed, outputDir>>

\* the scalar filters close enumsContent, which is then joined into the document
ScalarFilterStep ==
  /\ pc = "enums"
  /\ idx > Len(dmmf.enums)
  /\ enumsContent' = enumsContent \o generateScalarFilterSchemas(models)
  /\ indexContent' = indexContent \o enumsContent'
  /\ pc' = "pass1"
  /\ idx' = 1
  /\ UNCHANGED <<dmmf, files, parsed, outputDir>>

\* one iteration of one of the four loops over the models
PassStep(pass, content(_), next) ==
  /\ pc = pass
  /\ idx <= Len(models)
  /\ indexContent' = indexContent \o content(models[idx])
  /\ IF idx = Len(models) THEN pc' = next /\ idx' = 1
     ELSE pc' = pc /\ idx' = idx + 1
  /\ UNCHANGED <<dmmf, enumsContent, files, parsed, outputDir>>

FirstPass == PassStep("pass1", firstPass, "pass2")

SecondPass == PassStep("pass2", secondPass, "pass3")

ThirdPass == PassStep("pass3", thirdPass, "pass4")

FourthPass == PassStep("pass4", fourthPass, "utils")

Utils ==
  /\ pc = "utils"
  /\ indexContent' = indexContent \o generateValibotGroupByArgsGenericType
  /\ pc' = "return"
  /\ UNCHANGED <<dmmf, idx, enumsContent, files, parsed, outputDir>>

\* files['index.ts'] = indexContent; return files
Return ==
  /\ pc = "return"
  /\ files' = <<[path |-> "index.ts", content |-> indexContent]>>
  /\ pc' = "done"
  /\ UNCHANGED <<dmmf, idx, enumsContent, indexContent, parsed, outputDir>>

(***************************************************************************)
(* The consumer: valibot parsing a value through an emitted schema.        *)
(* Values are numbers, null, undefined, plain objects and arrays.          *)
(***************************************************************************)
Undefined == <<"undefined">>
NullValue == <<"null">>
NumberValue == <<"number">>
ObjectValue(entries) == <<"object", entries>>
ArrayValue(items) == <<"array", items>>
StringValue(text) == <<"string", text>>

Ok(out) == [status |-> "ok", output |-> out]
Issue == [status |-> "issue", output |-> Undefined]
\* a ReferenceError: the getter of a v.lazy names an identifier the module never declared
Thrown == [status |-> "throw", output |-> Undefined]

isDeclared(doc, name) ==
  \E i \in 1..Len(doc) : doc[i].name = name /\ doc[i].body[1] # "type"

declaration(doc, name) ==
  doc[CHOOSE i \in 1..Len(doc) : doc[i].name = name /\ doc[i].body[1] # "type"].body

\* input[key] of a plain object; an array has none of the keys of a schema
property(value, key) ==
  IF value[1] = "object" /\ \E i \in 1..Len(value[2]) : value[2][i][1] = key
  THEN value[2][CHOOSE i \in 1..Len(value[2]) : value[2][i][1] = key][2]
  ELSE Undefined

acceptsPrimitive(text, value) ==
  \/ text = "v.any()"
  \/ text = "v.number()" /\ value = NumberValue
  \/ text = "v.null()" /\ value = NullValue
  \/ text = "v.string()" /\ value[1] = "string"

\* String(i) for the indices of the arrays of the document
IndexKey(i) ==
  CASE i = 0 -> "0" [] i = 1 -> "1" [] i = 2 -> "2" [] i = 3 -> "3" [] i = 4 -> "4"
    [] i = 5 -> "5" [] i = 6 -> "6" [] i = 7 -> "7" [] OTHER -> "8"

\* the options of a v.picklist: the array named, the keys of the array named
\* (Object.keys of an array are its indices), or the literals listed
picklistOptions(doc, schema) ==
  LET array == declaration(doc, schema[2])[2]
  IN CASE schema[1] = "picklist" -> Range(array)
       [] schema[1] = "picklistKeys" -> {IndexKey(i - 1) : i \in 1..Len(array)}
       [] OTHER -> Range(schema[2])

\* the identifiers read when the expression is evaluated: all but those a
\* nested v.lazy getter defers
RECURSIVE evaluated(_)
evaluated(schema) ==
  CASE schema[1] \in {"ref", "picklist", "picklistKeys"} -> {schema[2]}
    [] schema[1] \in {"optional", "nullable", "nullish", "array"} -> evaluated(schema[2])
    [] schema[1] = "union" -> UNION {evaluated(schema[2][i]) : i \in 1..Len(schema[2])}
    [] schema[1] \in {"object", "strictObject"} ->
         UNION {evaluated(schema[2][i][2]) : i \in 1..Len(schema[2])}
    [] OTHER -> {}

RECURSIVE parse(_, _, _)
parse(doc, schema, value) ==
  LET tag == schema[1]
  IN CASE tag = "prim" -> IF acceptsPrimitive(schema[2], value) THEN Ok(value) ELSE Issue
       [] tag = "ref" -> IF isDeclared(doc, schema[2])
                         THEN parse(doc, declaration(doc, schema[2]), value)
                         ELSE Thrown
       [] tag = "lazy" ->
            \* the getter builds the whole inner schema before it parses
            IF \A name \in evaluated(schema[2]) : isDeclared(doc, name)
            THEN parse(doc, schema[2], value)
            ELSE Thrown
       [] tag = "optional" -> IF value = Undefined THEN Ok(value)
                              ELSE parse(doc, schema[2], value)
       [] tag = "nullable" -> IF value = NullValue THEN Ok(value)
                              ELSE parse(doc, schema[2], value)
       [] tag = "nullish" -> IF value = NullValue \/ value = Undefined THEN Ok(value)
                             ELSE parse(doc, schema[2], value)
       [] tag = "array" ->
            IF value[1] # "array" THEN Issue
            ELSE LET items == [i \in 1..Len(value[2]) |-> parse(doc, schema[2], value[2][i])]
                 IN IF \E i \in 1..Len(items) : items[i].status = "throw" THEN Thrown
                    ELSE IF \E i \in 1..Len(items) : items[i].status = "issue" THEN Issue
                    ELSE Ok(ArrayValue([i \in 1..Len(items) |-> items[i].output]))
       [] tag = "union" ->
            \* arms in listed order: the first arm without issues wins
            LET arms == [i \in 1..Len(schema[2]) |-> parse(doc, schema[2][i], value)]
                decided == {i \in 1..Len(arms) :
                              /\ arms[i].status # "issue"
                              /\ \A j \in 1..(i - 1) : arms[j].status = "issue"}
            IN IF decided = {} THEN Issue ELSE arms[CHOOSE i \in decided : TRUE]
       [] tag \in {"picklist", "picklistKeys", "picklistOf"} ->
            IF tag # "picklistOf" /\ ~isDeclared(doc, schema[2]) THEN Thrown
            ELSE IF value[1] = "string" /\ value[2] \in picklistOptions(doc, schema)
            THEN Ok(value)
            ELSE Issue
       [] tag \in {"object", "strictObject"} ->
            \* typeof input === 'object': arrays pass the test and carry none of the keys
            IF value[1] \notin {"object", "array"} THEN Issue
            ELSE LET entries == schema[2]
                     keys == {entries[i][1] : i \in 1..Len(entries)}
                     results == [i \in 1..Len(entries) |->
                                   parse(doc, entries[i][2], property(value, entries[i][1]))]
                     present(i) == property(value, entries[i][1]) # Undefined
                     kept(i) == IF present(i) THEN <<Entry(entries[i][1], results[i].output)>>
                                ELSE <<>>
                     unknown == value[1] = "object"
                                /\ \E i \in 1..Len(value[2]) : value[2][i][1] \notin keys
                 IN IF \E i \in 1..Len(entries) : results[i].status = "throw" THEN Thrown
                    ELSE IF \E i \in 1..Len(entries) : results[i].status = "issue" THEN Issue
                    ELSE IF tag = "strictObject" /\ unknown THEN Issue
                    ELSE Ok(ObjectValue(FlatMap([i \in 1..Len(entries) |-> i], kept)))
       [] OTHER -> Issue

\* the schema an object schema holds under a key
RECURSIVE entryOf(_, _)
entryOf(schema, key) ==
  IF schema[1] = "lazy" THEN entryOf(schema[2], key)
  ELSE schema[2][CHOOSE i \in 1..Len(schema[2]) : schema[2][i][1] = key][2]

\* the condition objects handed to AND / OR / NOT: {} and { id: 1 }
Conditions == {ObjectValue(<<>>), ObjectValue(<<Entry("id", NumberValue)>>)}

ConditionArrays ==
  {ArrayValue([i \in 1..n |-> c]) : n \in 2..MaxArrayLen, c \in Conditions}

\* a consumer parses an array of conditions through a logical field of a where
\* input or of a having input of the written document; parsing keeps no state,
\* so one call per run stands for all of them
ParseLogical ==
  /\ pc = "done"
  /\ pc' = "parsed"
  /\ \E i \in 1..Len(models), key \in {"AND", "NOT"}, input \in ConditionArrays,
        suffix \in {"WhereInputSchema", "ScalarWhereWithAggregatesInputSchema"} :
        LET doc == files[1].content
            name == models[i].name \o suffix
            result == parse(doc, entryOf(declaration(doc, name), key), input)
        IN parsed' = [schema |-> name, key |-> key, input |-> input,
                      status |-> result.status, output |-> result.output]
  /\ UNCHANGED <<dmmf, idx, enumsContent, indexContent, files, outputDir>>

Next ==
  \/ Preamble
  \/ EnumStep
  \/ ScalarFilterStep
  \/ FirstPass
  \/ SecondPass
  \/ ThirdPass
  \/ FourthPass
  \/ Utils
  \/ Return
  \/ ParseLogical

Spec == Init /\ [][Next]_vars

(***************************************************************************)
(* generator.ts: onGenerate.  A run cleans the output directory, calls     *)
(* generateSchemas and writes the files it returns; runs follow each       *)
(* other, each with the DMMF of the schema at hand, and between two runs   *)
(* anything may write to the directory.  generateSchemas is taken here as  *)
(* the one call it is: the concatenation the passes above build.           *)
(***************************************************************************)
Dir(entries) == [exists |-> TRUE, entries |-> entries]

File(path, content) == [path |-> path, content |-> content]

\* fs.rmSync(outputDir, { recursive: true, force: true })
rmSync(dir) == Absent

\* fs.mkdirSync(outputDir, { recursive: true })
mkdirSync(dir) == IF dir.exists THEN dir ELSE Dir({})

\* faulty variant: the directory is kept as it is found
cleanedInPlace(dir) == mkdirSync(dir)

\* if (fs.existsSync(outputDir)) fs.rmSync(...); fs.mkdirSync(...)
cleaned(dir) == mkdirSync(IF dir.exists THEN rmSync(dir) ELSE dir)

\* utils/write-file: creates the directory when missing, replaces the file
writeFileSafely(dir, file) ==
  Dir({e \in mkdirSync(dir).entries : e.path # file.path} \cup {file})

\* for (const [filename, content] of Object.entries(files)) await writeFileSafely(...)
RECURSIVE writeAll(_, _)
writeAll(dir, entries) ==
  IF Len(entries) = 0 THEN dir
  ELSE writeAll(writeFileSafely(dir, entries[1]), Tail(entries))

enumBlock(enumDef) ==
  generateEnumSchema(enumDef) \o generateEnumFilterSchema(enumDef, models)

\* the document generateSchemas returns for the DMMF at hand
generateSchemas ==
  preambleContent
  \o FlatMap(dmmf.enums, enumBlock) \o generateScalarFilterSchemas(models)
  \o FlatMap(models, firstPass) \o FlatMap(models, secondPass)
  \o FlatMap(models, thirdPass) \o FlatMap(models, fourthPass)
  \o generateValibotGroupByArgsGenericType

\* the schemas onGenerate is run on, one per relation topology
RunGraphs == {Graph(t, {}, 1) : t \in Topologies}

\* a file left by something else than the run
Stale(path) == File(path, <<>>)

\* what the output location may hold before the first run
PriorContents ==
  {Absent, Dir({}), Dir({Stale("old.ts")}), Dir({Stale("index.ts")}),
   Dir({Stale("index.ts"), Stale("old.ts")})}

OnGenerateInit ==
  /\ dmmf \in RunGraphs
  /\ pc = "idle"
  /\ idx = 1
  /\ enumsContent = <<>>
  /\ indexContent = <<>>
  /\ files = <<>>
  /\ parsed = NothingParsed
  /\ outputDir \in PriorContents

\* prisma generate hands the DMMF of the schema to onGenerate
StartRun ==
  /\ pc \in {"idle", "generated"}
  /\ dmmf' \in RunGraphs
  /\ files' = <<>>
  /\ pc' = "clean"
  /\ UNCHANGED <<idx, enumsContent, indexContent, parsed, outputDir>>

Clean ==
  /\ pc = "clean"
  /\ outputDir' = cleaned(outputDir)
  /\ pc' = "generate"
  /\ UNCHANGED <<dmmf, idx, enumsContent, indexContent, files, parsed>>

\* const files = generateSchemas(options.dmmf)
Generate ==
  /\ pc = "generate"
  /\ files' = <<File("index.ts", generateSchemas)>>
  /\ pc' = "write"
  /\ UNCHANGED <<dmmf, idx, enumsContent, indexContent, parsed, outputDir>>

WriteFiles ==
  /\ pc = "write"
  /\ outputDir' = writeAll(outputDir, files)
  /\ pc' = "generated"
  /\ UNCHANGED <<dmmf, idx, enumsContent, indexContent, files, parsed>>

\* between two runs a file is dropped into the directory, or index.ts is overwritten
Interfere ==
  /\ pc = "generated"
  /\ \E path \in {"old.ts", "index.ts"} : outputDir' = writeFileSafely(outputDir, Stale(path))
  /\ pc' = "idle"
  /\ UNCHANGED <<dmmf, idx, enumsContent, indexContent, files, parsed>>

OnGenerateNext ==
  \/ StartRun
  \/ Clean
  \/ Generate
  \/ WriteFiles
  \/ Interfere

OnGenerateSpec == OnGenerateInit /\ [][OnGenerateNext]_vars

(***************************************************************************)
(* The consumer again: argument objects parsed through the GroupByArgs,    *)
(* FindManyArgs and FindFirstArgs schemas of a generated index.ts.         *)
(***************************************************************************)
ArgsGraphs == {Graph(t, I, 1) : t \in Topologies, I \in ExtraChoices}

\* index.ts as generateSchemas left it
ConsumerInit ==
  /\ dmmf \in ArgsGraphs
  /\ pc = "done"
  /\ idx = 1
  /\ enumsContent = FlatMap(dmmf.enums, enumBlock) \o generateScalarFilterSchemas(models)
  /\ indexContent = generateSchemas
  /\ files = <<File("index.ts", generateSchemas)>>
  /\ parsed = NothingParsed
  /\ outputDir = Absent

\* { by: ['id'] } with or without orderBy: {}, take: 1, skip: 1
GroupByInput(orderBy, take, skip) ==
  ObjectValue(<<Entry("by", ArrayValue(<<StringValue("id")>>))>>
              \o (IF orderBy THEN <<Entry("orderBy", ObjectValue(<<>>))>> ELSE <<>>)
              \o (IF take THEN <<Entry("take", NumberValue)>> ELSE <<>>)
              \o (IF skip THEN <<Entry("skip", NumberValue)>> ELSE <<>>))

ParseGroupBy ==
  /\ pc = "done"
  /\ pc' = "parsed"
  /\ \E i \in 1..Len(models), orderBy \in BOOLEAN, take \in BOOLEAN, skip \in BOOLEAN :
        LET doc == files[1].content
            name == models[i].name \o "GroupByArgsSchema"
            input == GroupByInput(orderBy, take, skip)
            result == parse(doc, Ref(name), input)
        IN parsed' = [schema |-> name, key |-> "", input |-> input,
                      status |-> result.status, output |-> result.output]
  /\ UNCHANGED <<dmmf, idx, enumsContent, indexContent, files, outputDir>>

\* the names handed over in distinct: fields of the model, an index, a stranger
DistinctNames(model) == {model.fields[j].name : j \in 1..Len(model.fields)} \cup {"0", "nope"}

DistinctArrays(model) ==
  {<<n>> : n \in DistinctNames(model)} \cup {<<"id", n>> : n \in DistinctNames(model)}

ParseDistinct ==
  /\ pc = "done"
  /\ pc' = "parsed"
  /\ \E i \in 1..Len(models), suffix \in {"FindManyArgsSchema", "FindFirstArgsSchema"} :
        \E names \in DistinctArrays(models[i]) :
           LET doc == files[1].content
               name == models[i].name \o suffix
               input == ObjectValue(<<Entry("distinct",
                           ArrayValue([j \in 1..Len(names) |-> StringValue(names[j])]))>>)
               result == parse(doc, Ref(name), input)
           IN parsed' = [schema |-> name, key |-> "distinct", input |-> input,
                         status |-> result.status, output |-> result.output]
  /\ UNCHANGED <<dmmf, idx, enumsContent, indexContent, files, outputDir>>

ConsumerNext ==
  \/ ParseGroupBy
  \/ ParseDistinct

ConsumerSpec == ConsumerInit /\ [][ConsumerNext]_vars

(***************************************************************************)
(* Vocabulary of the properties: the written document and its syntax.      *)
(***************************************************************************)
\* the files as generateSchemas returned them; parsing never touches them
Written == pc = "done"

Document == IF Written THEN files[1].content ELSE <<>>

Declared ==
  {Document[i].name : i \in {j \in 1..Len(Document) : Document[j].body[1] # "type"}}

FragmentsOf(builders) == {f \in Range(Document) : f.builder \in builders}

\* the identifiers an expression names
RECURSIVE Refs(_)
Refs(e) ==
  CASE e[1] \in {"ref", "picklist", "picklistKeys"} -> {e[2]}
    [] e[1] \in {"lazy", "optional", "nullable", "nullish", "array"} -> Refs(e[2])
    [] e[1] = "union" -> UNION {Refs(e[2][i]) : i \in 1..Len(e[2])}
    [] e[1] \in {"object", "strictObject"} -> UNION {Refs(e[2][i][2]) : i \in 1..Len(e[2])}
    [] OTHER -> {}

\* every key: schema entry of every object inside an expression
RECURSIVE EntriesIn(_)
EntriesIn(e) ==
  CASE e[1] \in {"lazy", "optional", "nullable", "nullish", "array"} -> EntriesIn(e[2])
    [] e[1] = "union" -> UNION {EntriesIn(e[2][i]) : i \in 1..Len(e[2])}
    [] e[1] \in {"object", "strictObject"} ->
         {e[2][i] : i \in 1..Len(e[2])} \cup UNION {EntriesIn(e[2][i][2]) : i \in 1..Len(e[2])}
    [] OTHER -> {}

\* the arm lists of the unions of a field, not looking inside nested objects
RECURSIVE UnionsOf(_)
UnionsOf(e) ==
  CASE e[1] \in {"lazy", "optional", "nullable", "nullish", "array"} -> UnionsOf(e[2])
    [] e[1] = "union" -> {e[2]} \cup UNION {UnionsOf(e[2][i]) : i \in 1..Len(e[2])}
    [] OTHER -> {}

IsArrayArm(arm) == arm[1] = "array"

HasBothArms(arms) ==
  /\ \E i \in 1..Len(arms) : IsArrayArm(arms[i])
  /\ \E i \in 1..Len(arms) : ~IsArrayArm(arms[i])

\* every array arm stands before every single-item arm
ArrayArmsFirst(arms) ==
  \A i, j \in 1..Len(arms) : IsArrayArm(arms[i]) /\ ~IsArrayArm(arms[j]) => i < j

\* the fields named by keys in the fragments of the builders
FieldsOf(builders, keys) ==
  {en \in UNION {EntriesIn(f.body) : f \in FragmentsOf(builders)} : en[1] \in keys}

(***************************************************************************)
(* C1 -- every identifier referenced in the written index.ts is declared   *)
(* by an export const of the same document.                                *)
(***************************************************************************)
C1_ReferencesDeclared ==
  Written => \A i \in 1..Len(Document) : Refs(Document[i].body) \subseteq Declared

(***************************************************************************)
(* C2 -- in the unions of the AND / OR / NOT fields (where and having      *)
(* inputs) and of the orderBy fields (find-many, find-first, aggregate and *)
(* group-by arguments) that have an array arm and an object arm, the array *)
(* arm is listed before the object arm.                                    *)
(***************************************************************************)
LogicalAndSortFields ==
  FieldsOf({"generateWhereInputSchema", "generateScalarWhereWithAggregatesInputSchema"},
           {"AND", "OR", "NOT"})
  \cup FieldsOf({"generateFindManyArgsSchema", "generateFindFirstArgsSchema",
                 "generateAggregateArgsSchema", "generateGroupByArgsSchema"}, {"orderBy"})

C2_ArrayArmFirst ==
  \A en \in LogicalAndSortFields :
     \A arms \in UnionsOf(en[2]) : HasBothArms(arms) => ArrayArmsFirst(arms)

(***************************************************************************)
(* C3 -- an array of two or more condition objects parsed through the AND  *)
(* or the NOT field of a where input or of a having input comes back as    *)
(* that array, never as an empty object.                                   *)
(***************************************************************************)
C3_ArrayParsesAsArray ==
  pc = "parsed" => parsed.status = "ok" /\ parsed.output = parsed.input

(***************************************************************************)
(* C4 -- in the nested relation-operation fields that take one item or an  *)
(* array of items, and in the data field of the CreateMany arguments and   *)
(* envelopes, the array arm is listed before every single-item arm.        *)
(***************************************************************************)
RelationOperationFields ==
  FieldsOf({"generateCreateNestedManyWithoutInputSchemas",
            "generateUncheckedCreateNestedManyWithoutInputSchemas",
            "generateCreateNestedManyInputSchema",
            "generateUncheckedCreateNestedManyInputSchema",
            "generateUpdateManyNestedWithoutInputSchemas",
            "generateUpdateManyNestedInputSchema"},
           {"create", "connectOrCreate", "connect", "set", "disconnect", "delete",
            "update", "upsert", "updateMany", "deleteMany"})
  \cup FieldsOf({"generateCreateManyArgsSchema", "generateCreateManyInputEnvelopeSchemas"},
                {"data"})

C4_ArrayArmFirst ==
  \A en \in RelationOperationFields :
     \A arms \in UnionsOf(en[2]) : HasBothArms(arms) => ArrayArmsFirst(arms)

(***************************************************************************)
(* Vocabulary of the properties: the graph and the shapes of a model.      *)
(***************************************************************************)
ModelsOfGraph == Range(dmmf.models)

FieldsOfGraph == UNION {Range(m.fields) : m \in ModelsOfGraph}

\* the fragments a set of builders emitted for a model
ShapesOf(builders, model) == {f \in FragmentsOf(builders) : f.model = model.name}

\* the key: schema entries of the object a fragment declares
TopEntries(fragment) ==
  LET body == IF fragment.body[1] = "lazy" THEN fragment.body[2] ELSE fragment.body
  IN IF body[1] \in {"object", "strictObject"} THEN Range(body[2]) ELSE {}

Keys(fragment) == {en[1] : en \in TopEntries(fragment)}

EntriesFor(fragment, field) == {en \in TopEntries(fragment) : en[1] = field.name}

(***************************************************************************)
(* C5 -- for every enum E, the required filter of E is emitted iff some    *)
(* field of type E stands in required position, the nullable filter iff    *)
(* some field of type E is nullable, the list filter iff some field of     *)
(* type E is list-valued; a field is classified as list when list-valued,  *)
(* otherwise as required or nullable.                                      *)
(***************************************************************************)
EnumFieldsOf(enumDef) == {f \in FieldsOfGraph : f.kind = "enum" /\ f.type = enumDef.name}

C5_EnumFilterIffUsage ==
  Written =>
    \A enumDef \in Range(dmmf.enums) :
       /\ (enumDef.name \o "FilterSchema" \in Declared)
            <=> (\E f \in EnumFieldsOf(enumDef) : ~f.isList /\ f.isRequired)
       /\ (enumDef.name \o "NullableFilterSchema" \in Declared)
            <=> (\E f \in EnumFieldsOf(enumDef) : ~f.isList /\ ~f.isRequired)
       /\ (enumDef.name \o "NullableListFilterSchema" \in Declared)
            <=> (\E f \in EnumFieldsOf(enumDef) : f.isList)

(***************************************************************************)
(* C6 -- for every model X, XListRelationFilterSchema and                  *)
(* XOrderByRelationAggregateInputSchema are both emitted when some list    *)
(* relation field of the graph has type X, and neither is emitted          *)
(* otherwise.                                                              *)
(***************************************************************************)
IsListRelationTarget(model) ==
  \E f \in FieldsOfGraph : f.kind = "object" /\ f.isList /\ f.type = model.name

C6_ListRelationFragments ==
  Written =>
    \A model \in ModelsOfGraph :
       /\ (model.name \o "ListRelationFilterSchema" \in Declared) <=> IsListRelationTarget(model)
       /\ (model.name \o "OrderByRelationAggregateInputSchema" \in Declared)
            <=> IsListRelationTarget(model)

\* a written graph with a model that is a list relation target and a model
\* that is the target of a single relation only
C6_Witness ==
  /\ Written
  /\ \E model \in ModelsOfGraph :
        /\ IsListRelationTarget(model)
        /\ model.name \o "ListRelationFilterSchema" \in Declared
  /\ \E model \in ModelsOfGraph :
        /\ ~IsListRelationTarget(model)
        /\ \E f \in FieldsOfGraph : f.kind = "object" /\ f.type = model.name

(***************************************************************************)
(* C7 -- the entry of a required single-valued relation field is not       *)
(* wrapped in v.optional in the create input of its model and in every     *)
(* CreateWithout input that still holds the field, and is wrapped in       *)
(* v.optional in the update input of its model.                            *)
(***************************************************************************)
RequiredSingleRelations(model) ==
  {f \in Range(model.fields) : f.kind = "object" /\ ~f.isList /\ f.isRequired}

IsOptional(en) == en[2][1] = "optional"

C7_RequiredRelationOnCreate ==
  Written =>
    \A model \in ModelsOfGraph : \A field \in RequiredSingleRelations(model) :
       /\ \A shape \in ShapesOf({"generateCreateInputSchema"}, model) :
             /\ EntriesFor(shape, field) # {}
             /\ \A en \in EntriesFor(shape, field) : ~IsOptional(en)
       /\ \A shape \in ShapesOf({"generateCreateWithoutInputSchemas"}, model) :
             /\ shape.ctx # field.name => EntriesFor(shape, field) # {}
             /\ \A en \in EntriesFor(shape, field) : ~IsOptional(en)
       /\ \A shape \in ShapesOf({"generateUpdateInputSchema"}, model) :
             /\ EntriesFor(shape, field) # {}
             /\ \A en \in EntriesFor(shape, field) : IsOptional(en)

\* a written model with a required single relation, its create input, its
\* update input and a CreateWithout input that leaves out another relation
C7_Witness ==
  /\ Written
  /\ \E model \in ModelsOfGraph : \E field \in RequiredSingleRelations(model) :
        /\ ShapesOf({"generateCreateInputSchema"}, model) # {}
        /\ ShapesOf({"generateUpdateInputSchema"}, model) # {}
        /\ \E shape \in ShapesOf({"generateCreateWithoutInputSchemas"}, model) :
              shape.ctx # field.name /\ EntriesFor(shape, field) # {}

(***************************************************************************)
(* C8 -- a scalar field that some relation field of its model lists as a   *)
(* backing (foreign-key) field does not appear in the checked create input *)
(* of the model and does appear in its unchecked create input.             *)
(***************************************************************************)
ForeignKeys(model) ==
  {f \in Range(model.fields) :
     /\ f.kind = "scalar"
     /\ \E r \in Range(model.fields) : r.kind = "object" /\ f.name \in r.relationFromFields}

C8_ForeignKeyOnCreate ==
  Written =>
    \A model \in ModelsOfGraph : \A field \in ForeignKeys(model) :
       /\ \E shape \in ShapesOf({"generateCreateInputSchema"}, model) : TRUE
       /\ \A shape \in ShapesOf({"generateCreateInputSchema"}, model) :
             field.name \notin Keys(shape)
       /\ \E shape \in ShapesOf({"generateUncheckedCreateInputSchema"}, model) : TRUE
       /\ \A shape \in ShapesOf({"generateUncheckedCreateInputSchema"}, model) :
             field.name \in Keys(shape)

\* a written model with a foreign key next to other scalar fields
C8_Witness ==
  /\ Written
  /\ \E model \in ModelsOfGraph : \E field \in ForeignKeys(model) :
        \E shape \in ShapesOf({"generateCreateInputSchema"}, model) :
           /\ field.name \notin Keys(shape)
           /\ "id" \in Keys(shape)

(***************************************************************************)
(* C9 -- in the unchecked create input and in the unchecked update input   *)
(* of every model, every single-valued relation field is omitted and every *)
(* list-valued relation field is kept.                                     *)
(***************************************************************************)
C9_UncheckedRelations ==
  Written =>
    \A model \in ModelsOfGraph :
       \A shape \in ShapesOf({"generateUncheckedCreateInputSchema",
                              "generateUncheckedUpdateInputSchema"}, model) :
          \A field \in Range(model.fields) :
             field.kind = "object" => (field.name \in Keys(shape) <=> field.isList)

(***************************************************************************)
(* C10 -- in every create input and update input shape, checked and        *)
(* unchecked, every scalar or enum field that is not required is emitted   *)
(* as v.optional(v.nullable(T)), with or without a default value.          *)
(***************************************************************************)
CreateAndUpdateShapes(model) ==
  ShapesOf({"generateCreateInputSchema", "generateUncheckedCreateInputSchema",
            "generateUpdateInputSchema", "generateUncheckedUpdateInputSchema"}, model)

C10_OptionalNullable ==
  Written =>
    \A model \in ModelsOfGraph : \A shape \in CreateAndUpdateShapes(model) :
       \A field \in Range(model.fields) :
          field.kind \in {"scalar", "enum"} /\ ~field.isRequired =>
             \A en \in EntriesFor(shape, field) :
                en[2][1] = "optional" /\ en[2][2][1] = "nullable"

(***************************************************************************)
(* C11 -- the base shape of every model holds exactly the scalar and enum  *)
(* fields of the model and no relation field; a required field is emitted  *)
(* bare, a field that is not required is wrapped in v.nullish, once.       *)
(***************************************************************************)
IsWrapper(e) == e[1] \in {"optional", "nullable", "nullish"}

BaseShapes(model) ==
  {f \in ShapesOf({"generateModelSchema"}, model) : f.body[1] # "type"}

ScalarAndEnumFields(model) == {f \in Range(model.fields) : f.kind \in {"scalar", "enum"}}

C11_BaseShape ==
  Written =>
    \A model \in ModelsOfGraph :
       /\ BaseShapes(model) # {}
       /\ \A shape \in BaseShapes(model) :
             /\ Keys(shape) = {f.name : f \in ScalarAndEnumFields(model)}
             /\ Cardinality(TopEntries(shape)) = Cardinality(ScalarAndEnumFields(model))
             /\ \A field \in ScalarAndEnumFields(model) : \A en \in EntriesFor(shape, field) :
                   IF field.isRequired THEN ~IsWrapper(en[2])
                   ELSE en[2][1] = "nullish" /\ ~IsWrapper(en[2][2])

\* a written model with a relation field, a required and a non-required field
C11_Witness ==
  /\ Written
  /\ \E model \in ModelsOfGraph : \E shape \in BaseShapes(model) :
        /\ \E f \in Range(model.fields) : f.kind = "object" /\ f.name \notin Keys(shape)
        /\ \E f \in ScalarAndEnumFields(model) : \E en \in EntriesFor(shape, f) :
              ~f.isRequired /\ en[2][1] = "nullish"
        /\ \E f \in ScalarAndEnumFields(model) : \E en \in EntriesFor(shape, f) :
              f.isRequired /\ ~IsWrapper(en[2])

(***************************************************************************)
(* C12 -- the unique-lookup shape of a model has one arm per constraint    *)
(* (single-field @id, single-field @unique, compound @@unique, compound    *)
(* @@id): with one constraint it is that constraint's object, bare; with   *)
(* n > 1 constraints it is a choice of n object arms, each holding only    *)
(* the fields of its constraint.                                           *)
(***************************************************************************)
\* the field sets of the constraints of a model
SingleFieldConstraints(model) ==
  {{f.name} : f \in {g \in ScalarAndEnumFields(model) : g.isId \/ g.isUnique}}

CompoundConstraints(model) ==
  {Range(index) : index \in {i \in Range(model.uniqueIndexes) : Len(i) > 1}}
  \cup (IF Len(model.primaryKey) > 1 THEN {Range(model.primaryKey)} ELSE {})

ConstraintsOf(model) == SingleFieldConstraints(model) \cup CompoundConstraints(model)

\* the fields an arm holds: its keys, or the keys of the object under its
\* one compound key
FieldsHeld(arm) ==
  IF arm[1] # "object" THEN {}
  ELSE IF Len(arm[2]) = 1 /\ arm[2][1][2][1] = "object"
  THEN {arm[2][1][2][2][i][1] : i \in 1..Len(arm[2][1][2][2])}
  ELSE {arm[2][i][1] : i \in 1..Len(arm[2])}

UniqueLookupShapes(model) == ShapesOf({"generateWhereUniqueInputSchema"}, model)

C12_OneArmPerConstraint ==
  Written =>
    \A model \in ModelsOfGraph : \A shape \in UniqueLookupShapes(model) :
       LET n == Cardinality(ConstraintsOf(model))
       IN /\ n = 1 => /\ shape.body[1] = "object"
                      /\ {FieldsHeld(shape.body)} = ConstraintsOf(model)
          /\ n > 1 => /\ shape.body[1] = "union"
                      /\ Len(shape.body[2]) = n
                      /\ \A i \in 1..n : shape.body[2][i][1] = "object"
                      /\ {FieldsHeld(shape.body[2][i]) : i \in 1..n} = ConstraintsOf(model)

(***************************************************************************)
(* C13 -- in every where input a non-list scalar or enum field is a choice *)
(* of two arms, the structured filter of its type and the bare value; a    *)
(* list-valued scalar or enum field takes the structured list filter only. *)
(***************************************************************************)
WhereInputs(model) == ShapesOf({"generateWhereInputSchema"}, model)

\* the schema under v.optional(v.lazy(() => ...))
FilterOf(en) ==
  IF en[2][1] = "optional" /\ en[2][2][1] = "lazy" THEN en[2][2][2] ELSE <<"none">>

StructuredFilterName(field) ==
  (IF field.kind = "enum" THEN field.type ELSE ScalarFilterFamily(field.type))
  \o (IF field.isList THEN (IF field.kind = "enum" THEN "NullableListFilterSchema"
                            ELSE "ListFilterSchema")
      ELSE IF field.isRequired THEN "FilterSchema" ELSE "NullableFilterSchema")

BareValue(field) ==
  IF field.kind = "enum" THEN Picklist(field.type \o "Enum")
  ELSE getBaseValibotType(field.type)

Unwrapped(e) == IF IsWrapper(e) THEN e[2] ELSE e

C13_FilterOrBareValue ==
  Written =>
    \A model \in ModelsOfGraph : \A shape \in WhereInputs(model) :
       \A field \in ScalarAndEnumFields(model) :
          /\ EntriesFor(shape, field) # {}
          /\ \A en \in EntriesFor(shape, field) :
                IF field.isList
                THEN FilterOf(en) = Ref(StructuredFilterName(field))
                ELSE /\ FilterOf(en)[1] = "union"
                     /\ Len(FilterOf(en)[2]) = 2
                     /\ FilterOf(en)[2][1] = Ref(StructuredFilterName(field))
                     /\ Unwrapped(FilterOf(en)[2][2]) = BareValue(field)

\* a written where input with a list-valued field next to a single-valued one
C13_Witness ==
  /\ Written
  /\ \E model \in ModelsOfGraph : \E shape \in WhereInputs(model) :
        /\ \E field \in ScalarAndEnumFields(model) :
              field.isList /\ EntriesFor(shape, field) # {}
        /\ \E field \in ScalarAndEnumFields(model) : \E en \in EntriesFor(shape, field) :
              ~field.isList /\ FilterOf(en)[1] = "union"

(***************************************************************************)
(* C14 -- in every where input the filter of a single-valued relation      *)
(* field is a choice whose arms are, in this order: a literal null (iff    *)
(* the relation is nullable), the closed { is, isNot } wrapper object, the *)
(* bare where input of the target model.                                   *)
(***************************************************************************)
SingleRelations(model) == {f \in Range(model.fields) : f.kind = "object" /\ ~f.isList}

IsLiteralNull(arm) == arm = Prim("v.null()")

IsClosedWrapper(arm) ==
  /\ arm[1] = "strictObject"
  /\ Len(arm[2]) = 2
  /\ {arm[2][i][1] : i \in 1..Len(arm[2])} = {"is", "isNot"}

C14_RelationFilterArms ==
  Written =>
    \A model \in ModelsOfGraph : \A shape \in WhereInputs(model) :
       \A field \in SingleRelations(model) :
          /\ EntriesFor(shape, field) # {}
          /\ \A en \in EntriesFor(shape, field) :
                LET arms == IF FilterOf(en)[1] = "union" THEN FilterOf(en)[2] ELSE <<>>
                    first == IF field.isRequired THEN 1 ELSE 2
                IN /\ Len(arms) = first + 1
                   /\ ~field.isRequired => IsLiteralNull(arms[1])
                   /\ IsClosedWrapper(arms[first])
                   /\ arms[first + 1] = Ref(field.type \o "WhereInputSchema")

\* a written graph with a nullable and with a required single relation
C14_Witness ==
  /\ Written
  /\ \E model \in ModelsOfGraph : \E shape \in WhereInputs(model) :
        \E field \in SingleRelations(model) : \E en \in EntriesFor(shape, field) :
           ~field.isRequired /\ Len(FilterOf(en)[2]) = 3
  /\ \E model \in ModelsOfGraph : \E shape \in WhereInputs(model) :
        \E field \in SingleRelations(model) : \E en \in EntriesFor(shape, field) :
           field.isRequired /\ Len(FilterOf(en)[2]) = 2

(***************************************************************************)
(* C15 -- for every relation field f of a model A with target B and        *)
(* paired reverse field r on B, the create input of A and every            *)
(* CreateWithout variant of A that keeps f reference                       *)
(* BCreateNestedOneWithout<R>InputSchema (f single-valued) or              *)
(* BCreateNestedManyWithout<R>InputSchema (f a list) under the key f, and  *)
(* never the unreduced BCreateInputSchema.                                 *)
(***************************************************************************)
RelationFieldsOf(model) == {f \in Range(model.fields) : f.kind = "object"}

\* the fields of the target model on the other end of the relation of f
PairedReverse(model, f) ==
  {r \in UNION {RelationFieldsOf(B) : B \in {m \in ModelsOfGraph : m.name = f.type}} :
     r.type = model.name /\ r.relationName = f.relationName /\ r.name # f.name}

CheckedCreateShapes(model) ==
  ShapesOf({"generateCreateInputSchema", "generateCreateWithoutInputSchemas"}, model)

ReducedNestedName(f, r) ==
  f.type \o (IF f.isList THEN "CreateNestedManyWithout" ELSE "CreateNestedOneWithout")
         \o Capitalize(r.name) \o "InputSchema"

BodyOf(name) == Document[CHOOSE i \in 1..Len(Document) : Document[i].name = name].body

\* the identifiers reachable from a set of identifiers through declarations
RECURSIVE ReachableFrom(_)
ReachableFrom(names) ==
  LET next == names \cup UNION {Refs(BodyOf(n)) : n \in names \cap Declared}
  IN IF next = names THEN names ELSE ReachableFrom(next)

CreateWithoutShapes(model) == ShapesOf({"generateCreateWithoutInputSchemas"}, model)

UnreducedCreateInputs ==
  UNION {{m.name \o "CreateInputSchema", m.name \o "UncheckedCreateInputSchema"} :
           m \in ModelsOfGraph}

C16_NoUnreducedCreateReachable ==
  Written =>
    \A model \in ModelsOfGraph : \A shape \in CreateWithoutShapes(model) :
       ReachableFrom(Refs(shape.body)) \cap UnreducedCreateInputs = {}

\* a CreateWithout shape of one model reaches a CreateWithout shape of the other
C16_Witness ==
  /\ Written
  /\ \E A \in ModelsOfGraph : \E B \in ModelsOfGraph :
        /\ A.name # B.name
        /\ \E shape \in CreateWithoutShapes(B) : \E back \in CreateWithoutShapes(A) :
              back.name \in ReachableFrom(Refs(shape.body))

(***************************************************************************)
(* C17 -- every value position emitted for a DateTime field -- base shape, *)
(* create and update inputs, the operators equals, in, notIn, lt, lte, gt, *)
(* gte, not of the DateTime filter fragments, the bare filter value of a   *)
(* where input, the unique-lookup shape -- accepts a native date as well   *)
(* as an ISO-8601 string.                                                  *)
(***************************************************************************)
DateValue == <<"date">>
IsoStringValue == <<"isoString">>
ListOf(item) == <<"array", item>>

admitsPrimitive(text, value) ==
  \/ text = "v.any()"
  \/ text = "v.date()" /\ value = DateValue
  \/ /\ text \in {"v.string()", "v.pipe(v.string(), v.isoTimestamp())",
                  "v.pipe(v.string(), v.isoDateTime())"}
     /\ value = IsoStringValue

\* whether valibot parses the value through the schema without an issue; an
\* object schema reads no key of a date or of an array, so it lets them
\* through when each of its entries may be absent
RECURSIVE Admits(_, _)
Admits(e, value) ==
  CASE e[1] = "prim" -> admitsPrimitive(e[2], value)
    [] e[1] = "ref" -> e[2] \in Declared /\ Admits(BodyOf(e[2]), value)
    [] e[1] \in {"lazy", "optional", "nullable", "nullish"} -> Admits(e[2], value)
    [] e[1] = "array" -> value[1] = "array" /\ Admits(e[2], value[2])
    [] e[1] = "union" -> \E i \in 1..Len(e[2]) : Admits(e[2][i], value)
    [] e[1] \in {"object", "strictObject"} ->
         /\ value # IsoStringValue
         /\ \A i \in 1..Len(e[2]) : e[2][i][2][1] \in {"optional", "nullish"}
    [] OTHER -> FALSE

AdmitsBoth(e) == Admits(e, DateValue) /\ Admits(e, IsoStringValue)

AdmitsBothLists(e) == Admits(e, ListOf(DateValue)) /\ Admits(e, ListOf(IsoStringValue))

TimestampFields(model) ==
  {f \in Range(model.fields) : f.kind = "scalar" /\ f.type = "DateTime" /\ ~f.isList}

TimestampFilters ==
  {f \in FragmentsOf({"generateScalarFilterSchemas"}) :
     f.name \in {"DateTimeFilterSchema", "DateTimeNullableFilterSchema"}}

C17_FieldPositions(shapes(_)) ==
  \A model \in ModelsOfGraph : \A field \in TimestampFields(model) :
     \A shape \in shapes(model) :
        \A en \in {x \in EntriesIn(shape.body) : x[1] = field.name} : AdmitsBoth(en[2])

C17_FilterOperators ==
  \A f \in TimestampFilters : \A en \in TopEntries(f) :
     /\ en[1] \in {"equals", "lt", "lte", "gt", "gte", "not"} => AdmitsBoth(en[2])
     /\ en[1] \in {"in", "notIn"} => AdmitsBothLists(en[2])

C17_DateOrIsoString ==
  Written =>
    /\ C17_FieldPositions(BaseShapes)
    /\ C17_FieldPositions(CreateAndUpdateShapes)
    /\ C17_FieldPositions(WhereInputs)
    /\ C17_FieldPositions(UniqueLookupShapes)
    /\ C17_FilterOperators

(***************************************************************************)
(* C18 -- a model owning a list relation (its Select and Include shapes    *)
(* carry _count) has <Model>CountOutputTypeSelectSchema,                   *)
(* <Model>CountOutputTypeDefaultArgsSchema and, per list relation, one     *)
(* <Model>CountOutputTypeCount<Relation>ArgsSchema declared in the         *)
(* document; a model owning none has none of them and no _count field.     *)
(***************************************************************************)
ListRelations(model) == {f \in Range(model.fields) : f.kind = "object" /\ f.isList}

SelectAndIncludeShapes(model) ==
  ShapesOf({"generateSelectSchema", "generateIncludeSchema"}, model)

CountOutputTypeNames(model) ==
  {model.name \o "CountOutputTypeSelectSchema", model.name \o "CountOutputTypeDefaultArgsSchema"}
  \cup {model.name \o "CountOutputTypeCount" \o Capitalize(f.name) \o "ArgsSchema" :
          f \in ListRelations(model)}

C18_CountOutputTypes ==
  Written =>
    \A model \in ModelsOfGraph :
       IF ListRelations(model) # {}
       THEN /\ \A shape \in SelectAndIncludeShapes(model) : "_count" \in Keys(shape)
            /\ CountOutputTypeNames(model) \subseteq Declared
       ELSE /\ \A shape \in SelectAndIncludeShapes(model) : "_count" \notin Keys(shape)
            /\ \A name \in Declared :
                  name \notin {model.name \o "CountOutputTypeSelectSchema",
                               model.name \o "CountOutputTypeDefaultArgsSchema"}

(***************************************************************************)
(* C19 -- the type mapper is total: every type tag, with or without the    *)
(* list flag, gets an expression; each of the nine known tags its own, any *)
(* other tag the accept-anything expression; with the list flag the result *)
(* is an array of the base expression, except for DateTime, where it is a  *)
(* choice between an array of strings and an array of dates and not an     *)
(* array of the string-or-date choice.                                     *)
(***************************************************************************)
KnownTags ==
  {"String", "Int", "BigInt", "Float", "Decimal", "Boolean", "DateTime", "Json", "Bytes"}

\* tags no Prisma scalar carries
UnknownTags == {"Unsupported", "Geometry", ""}

AcceptAnything == Prim("v.any()")

OwnExpression(tag) ==
  CASE tag = "String" -> "v.string()"
    [] tag \in {"Int", "Float", "Decimal"} -> "v.number()"
    [] tag = "BigInt" -> "v.bigint()"
    [] tag = "Boolean" -> "v.boolean()"
    [] tag = "Json" -> "v.any()"
    [] tag = "Bytes" -> "v.instance(Uint8Array)"

IsStringOrDate(e) ==
  /\ e[1] = "union"
  /\ Len(e[2]) = 2
  /\ e[2][1] = IsoTimestamp
  /\ e[2][2] = Prim("v.date()")

\* the tags of the scalar fields of the graph at hand
TagsOfGraph == {f.type : f \in {g \in FieldsOfGraph : g.kind = "scalar"}}

PreambleBuilders == {"generateSchemas"}

EnumAndScalarFilterBuilders ==
  {"generateEnumSchema", "generateEnumFilterSchema", "generateScalarFilterSchemas"}

BaseBuilders == {"generateModelSchema", "generateScalarFieldEnum"}

FilterSortSelectionBuilders ==
  {"generateWhereUniqueInputSchema", "generateWhereInputSchema",
   "generateListRelationFilterSchema", "generateOrderBySchema",
   "generateOrderByRelationAggregateSchema", "generateSelectSchema", "generateIncludeSchema"}

\* the place of a fragment in the order of the claim; the create and update
\* inputs are the fragments of the third loop, the argument bundles (with
\* the aggregate inputs they name) those of the fourth, the closing type
\* alias comes last
Stage(f) ==
  CASE f.builder \in PreambleBuilders -> 0
    [] f.builder \in EnumAndScalarFilterBuilders -> 1
    [] f.builder \in BaseBuilders -> 2
    [] f.builder \in FilterSortSelectionBuilders -> 3
    [] f.builder = "generateValibotGroupByArgsGenericType" -> 6
    [] OTHER -> IF f.pass = 3 THEN 4 ELSE 5

\* what has been emitted so far: the enum block joins the document when it is complete
Emitted == IF pc = "enums" THEN indexContent \o enumsContent ELSE indexContent

\* stated of neighbours, which orders every pair
C20_PassOrder ==
  \A i \in 1..(Len(Emitted) - 1) : Stage(Emitted[i]) <= Stage(Emitted[i + 1])

\* a whole document: every stage has fragments, and fragments of Team come
\* before fragments of Account of a later pass
C20_Witness ==
  /\ Written
  /\ \A s \in 0..5 : \E f \in Range(Document) : Stage(f) = s
  /\ \A s \in 2..4 : \E i \in 1..Len(Document) : \E j \in 1..Len(Document) :
        /\ i < j
        /\ Document[i].model = "Team" /\ Stage(Document[i]) = s
        /\ Document[j].model = "Account" /\ Stage(Document[j]) = s + 1

(***************************************************************************)
(* C21 -- after any sequence of completed onGenerate runs on one output    *)
(* location, whatever the location held before the last run, it holds      *)
(* exactly one file, index.ts, with the document the last run generated.   *)
(***************************************************************************)
Completed == pc = "generated"

C21_OnlyLastDocument ==
  Completed => outputDir = Dir({File("index.ts", generateSchemas)})

\* a completed run whose directory holds the document of the run, the stale
\* files of before gone
C21_Witness ==
  /\ Completed
  /\ outputDir.exists
  /\ \E f \in outputDir.entries : f.path = "index.ts" /\ Len(f.content) > 0
  /\ Stale("old.ts") \notin outputDir.entries

(***************************************************************************)
(* C22 -- a fragment names outside of a v.lazy getter only identifiers     *)
(* declared earlier in the document: every reference to the fragment       *)
(* itself or to a fragment declared later stands inside a v.lazy.          *)
(***************************************************************************)
DeclaredBefore(i) ==
  {Document[j].name : j \in {k \in 1..(i - 1) : Document[k].body[1] # "type"}}

C22_ForwardReferencesDeferred ==
  Written =>
    \A i \in 1..Len(Document) : evaluated(Document[i].body) \subseteq DeclaredBefore(i)

\* a written document with a fragment naming itself and a fragment naming a
\* later one, and with a fragment naming an earlier one outside of v.lazy
C22_Witness ==
  /\ Written
  /\ \E i \in 1..Len(Document) : Document[i].name \in Refs(Document[i].body)
  /\ \E i \in 1..Len(Document) : \E j \in (i + 1)..Len(Document) :
        Document[j].name \in Refs(Document[i].body)
  /\ \E i \in 1..Len(Document) : evaluated(Document[i].body) # {}

(***************************************************************************)
(* C23 -- no identifier is declared twice in the written document: each    *)
(* context-specific fragment (WithoutX inputs, nested WithoutX inputs,     *)
(* CreateMany envelopes and CreateMany<X> inputs) comes once per relation  *)
(* edge, self-referential relations included.                              *)
(***************************************************************************)
DeclaredTwice ==
  {Document[i].name : i \in {k \in 1..Len(Document) :
                               \E j \in 1..(k - 1) : Document[j].name = Document[k].name}}

C23_DeclaredOnce == Written => DeclaredTwice = {}

(***************************************************************************)
(* C24 -- for every relation field f of a self-referential relation, every *)
(* builder that computes the paired reverse field of f -- the reference    *)
(* sites of the create and update inputs, the defining sites of the nested *)
(* WithoutX fragments and of the unchecked nested-many WithoutX, CreateMany*)
(* envelope and CreateMany<X> fragments -- selects a field other than f,   *)
(* and all of them select the same field.                                  *)
(***************************************************************************)
SelfRelationFields(model) ==
  {f \in Range(model.fields) : f.kind = "object" /\ f.type = model.name}

\* the reverse fields the builders select for the field f of a self relation
ReverseSelections(model, f) ==
  LET in == [otherModel |-> model, field |-> f]
  IN {findReverseRelationFieldName(model, f, models), reverseFieldNameExcludingSelf(model, in)}
     \cup (IF f.isList THEN {reverseFieldNameAny(model, in)} ELSE {})

C24_SameReverseField ==
  \A model \in ModelsOfGraph : \A f \in SelfRelationFields(model) :
     /\ f.name \notin ReverseSelections(model, f)
     /\ Cardinality(ReverseSelections(model, f)) = 1

(***************************************************************************)
(* C25 -- the scalar filter fragments of all nine scalar types, in their   *)
(* plain, nullable, list and with-aggregates variants, are declared for    *)
(* every input graph, whichever scalar types, nullabilities and list uses  *)
(* occur in the models.                                                    *)
(***************************************************************************)
ScalarFilterFamilies ==
  {"String", "Int", "BigInt", "Float", "Decimal", "Bool", "DateTime", "Json", "Bytes"}

ScalarFilterVariants ==
  {"FilterSchema", "NullableFilterSchema", "ListFilterSchema",
   "WithAggregatesFilterSchema", "NullableWithAggregatesFilterSchema"}

ScalarFilterNames == {t \o variant : t \in ScalarFilterFamilies, variant \in ScalarFilterVariants}

C25_ScalarFiltersAlways == Written => ScalarFilterNames \subseteq Declared

(***************************************************************************)
(* C26 -- the GroupByArgs schema rejects every input holding take or skip  *)
(* and no orderBy, and accepts take and skip when orderBy is there.        *)
(***************************************************************************)
Holds(value, key) == property(value, key) # Undefined

GroupByParsed == pc = "parsed" /\ parsed.key = ""

C26_TakeSkipNeedOrderBy ==
  GroupByParsed =>
    LET limited == Holds(parsed.input, "take") \/ Holds(parsed.input, "skip")
    IN /\ limited /\ ~Holds(parsed.input, "orderBy") => parsed.status = "issue"
       /\ Holds(parsed.input, "orderBy") => parsed.status = "ok"

(***************************************************************************)
(* C27 -- the distinct field of the FindMany and FindFirst argument        *)
(* schemas accepts every array whose elements are names of scalar or enum  *)
(* fields of the model (the entries of <Model>ScalarFieldEnum) and rejects *)
(* an array holding any other string.                                      *)
(***************************************************************************)
DistinctParsed == pc = "parsed" /\ parsed.key = "distinct"

\* the names handed over in distinct
DistinctHandedOver ==
  LET items == property(parsed.input, "distinct")[2]
  IN {items[j][2] : j \in 1..Len(items)}

\* the model whose schema parsed the input
ParsedModel == CHOOSE m \in ModelsOfGraph :
                 parsed.schema \in {m.name \o "FindManyArgsSchema", m.name \o "FindFirstArgsSchema"}

ScalarFieldNames(model) == {f.name : f \in ScalarAndEnumFields(model)}

C27_DistinctFieldNames ==
  DistinctParsed =>
    IF DistinctHandedOver \subseteq ScalarFieldNames(ParsedModel)
    THEN parsed.status = "ok"
    ELSE parsed.status = "issue"

(***************************************************************************)
(* C28 -- an enum-typed field counts for exactly one of the three usage    *)
(* flags of its enum -- list when list-valued, otherwise required or       *)
(* nullable -- so an enum used on list-valued fields only has its list     *)
(* filter declared and neither its required nor its nullable filter.       *)
(***************************************************************************)
EnumFieldsOfType(enumDef) ==
  {f \in FieldsOfGraph : f.kind = "enum" /\ f.type = enumDef.name}

UsageFlags(field) ==
  (IF fieldIsRequired(field) THEN {"required"} ELSE {})
  \cup (IF fieldIsNullable(field) THEN {"nullable"} ELSE {})
  \cup (IF fieldIsList(field) THEN {"list"} ELSE {})

C28_OneUsageFlag ==
  \A enumDef \in Range(dmmf.enums) :
     /\ \A field \in EnumFieldsOfType(enumDef) : Cardinality(UsageFlags(field)) = 1
     /\ Written /\ EnumFieldsOfType(enumDef) # {}
        /\ (\A field \in EnumFieldsOfType(enumDef) : field.isList)
        => /\ (enumDef.name \o "NullableListFilterSchema") \in Declared
           /\ (enumDef.name \o "FilterSchema") \notin Declared
           /\ (enumDef.name \o "NullableFilterSchema") \notin Declared

(***************************************************************************)
(* C29 -- for every model B and relation field r of B, the entries of      *)
(* BCreateWithout<R>InputSchema are the entries of the checked create      *)
(* input of B with the entry of r taken out: every other field with the    *)
(* same expression, in the same place, nothing added and nothing else      *)
(* removed.                                                                *)
(***************************************************************************)
WithoutEntry(entries, key) ==
  LET keep(en) == IF en[1] = key THEN <<>> ELSE <<en>>
  IN FlatMap(entries, keep)

CreateWithoutOf(model, r) ==
  {f \in CreateWithoutShapes(model) :
     f.name = model.name \o "CreateWithout" \o Capitalize(r.name) \o "InputSchema"}

RECURSIVE LazyDepth(_)
LazyDepth(e) ==
  LET Deepest(S) == IF S = {} THEN 0 ELSE CHOOSE n \in S : \A k \in S : k <= n
  IN CASE e[1] = "lazy" -> 1 + LazyDepth(e[2])
       [] e[1] \in {"optional", "nullable", "nullish", "array"} -> LazyDepth(e[2])
       [] e[1] = "union" -> Deepest({LazyDepth(e[2][i]) : i \in 1..Len(e[2])})
       [] e[1] \in {"object", "strictObject"} ->
            Deepest({LazyDepth(e[2][i][2]) : i \in 1..Len(e[2])})
       [] OTHER -> 0

C30_NoNestedLazy ==
  Written => \A f \in Range(Document) : LazyDepth(f.body) <= 1

====
